---- MODULE Spec2Model ----
(***************************************************************************)
(* A model of the WebDAV client (src/src/webdav-client.ts) and of the n8n  *)
(* node that drives it (src/unnamed/part_001).                             *)
(*                                                                         *)
(* Strings are sequences of tokens: "/" is the path separator, every other *)
(* token stands for a run of characters without a separator.  A response   *)
(* of the server is a record [kind, status]: kind "http" carries a status, *)
(* kinds "network" and "tls" are failures without a response.              *)
(***************************************************************************)
EXTENDS Integers, Sequences, FiniteSets, TLC

\* The fields of the model's records; every record lists its fields in this order.
Fields ==
    [kind |-> 1, size |-> 2, status |-> 3, resp |-> 4, srv |-> 5, ok |-> 6,
     scheme |-> 7, host |-> 8, segs |-> 9, t |-> 10, v |-> 11, href |-> 12,
     prop |-> 13, getcontentlength |-> 14, getlastmodified |-> 15, getcontenttype |-> 16, getetag |-> 17, resourcetype |-> 18,
     displayname |-> 19, filename |-> 20, basename |-> 21, type |-> 22, lastmod |-> 23, mime |-> 24,
     etag |-> 25, cls |-> 26, hasStatus |-> 27, value |-> 28, op |-> 29, args |-> 30,
     path |-> 31, dest |-> 32, overwrite |-> 33, len |-> 34, label |-> 35, target |-> 36,
     parents |-> 37, parts |-> 38, idx |-> 39, cur |-> 40, after |-> 41, pc |-> 42,
     call |-> 43, node |-> 44, result |-> 45, method |-> 46, depth |-> 47, by |-> 48,
     deep |-> 49, recursive |-> 50, log |-> 51, message |-> 52, data |-> 53, length |-> 54,
     itemIndex |-> 55, continueOnFail |-> 56, items |-> 57, returnData |-> 58, error |-> 59]
VARIABLES
    baseURL,    \* the base URL the client was constructed with
    maxBodyLength, \* the largest request body the client's axios instance sends
    faults,        \* the failures an exchange with the server may end with
    server,     \* the server's resources: what exists at each path
    log,        \* the requests of the invocation in hand, with their answers
    pc,         \* the statement the running client operation stands at
    call,       \* the running client operation and its arguments
    node,       \* the item execute() is handling and the await it stands at
    result,     \* the outcome of the last operation that finished
    calls,      \* the number of operations invoked so far
    written,    \* per resource: byte length of the last successful putFileContents
    mkcols,     \* per resource: MKCOL requests issued by createParentDirectories
    faulted,    \* TRUE once the server has answered with an injected failure
    other,      \* a second operation on the same client, suspended at an await
    execution   \* one run of the node's execute(): its input items and its output

vars == <<baseURL, maxBodyLength, faults, server, log, pc, call, node, result, calls, written, mkcols,
          faulted, other, execution>>

-----------------------------------------------------------------------------
(* Bounds *)

MaxCalls == 3
MaxLen == 12

-----------------------------------------------------------------------------
(* Strings *)

Slash == "/"

\* s.startsWith(p)
StartsWith(s, p) == Len(s) >= Len(p) /\ SubSeq(s, 1, Len(p)) = p

\* s.endsWith('/')
EndsWithSlash(s) == Len(s) > 0 /\ s[Len(s)] = Slash

\* dirPath.split('/').filter(part => part.length > 0)
SplitPath(s) == SelectSeq(s, LAMBDA t : t # Slash)

\* Node's path.dirname (posix): index (0-based) of the separator that ends the
\* directory part, scanning from the right and skipping trailing separators;
\* -1 when there is none after position 0.
RECURSIVE DirnameEnd(_, _, _)
DirnameEnd(s, i, matchedSlash) ==
    IF i < 1 THEN -1
    ELSE IF s[i + 1] = Slash
         THEN IF ~matchedSlash THEN i ELSE DirnameEnd(s, i - 1, matchedSlash)
         ELSE DirnameEnd(s, i - 1, FALSE)

Dirname(s) ==
    IF Len(s) = 0 THEN <<".">>
    ELSE LET hasRoot == s[1] = Slash
             end == DirnameEnd(s, Len(s) - 1, TRUE)
         IN  IF end = -1 THEN (IF hasRoot THEN <<Slash>> ELSE <<".">>)
             ELSE IF hasRoot /\ end = 1 THEN <<Slash, Slash>>
             ELSE SubSeq(s, 1, end)

\* Decimal digits of a natural number, as the server writes getcontentlength.
Digit(n) == CASE n = 0 -> "0" [] n = 1 -> "1" [] n = 2 -> "2" [] n = 3 -> "3"
              [] n = 4 -> "4" [] n = 5 -> "5" [] n = 6 -> "6" [] n = 7 -> "7"
              [] n = 8 -> "8" [] n = 9 -> "9"

RECURSIVE ToDecimal(_)
ToDecimal(n) == IF n < 10 THEN <<Digit(n)>>
                ELSE ToDecimal(n \div 10) \o <<Digit(n % 10)>>

IsDigit(t) == t \in {"0", "1", "2", "3", "4", "5", "6", "7", "8", "9"}

DigitValue(t) == CHOOSE n \in 0..9 : Digit(n) = t

-----------------------------------------------------------------------------
(* The WebDAV server (the environment the client talks to) *)

\* The resources the model's requests address, by canonical path.
Res == {<<"a">>, <<"b">>, <<"new">>, <<"new", "sub">>, <<"new", "sub", "f">>}

None == [kind |-> "none", size |-> 0]
Dir == [kind |-> "dir", size |-> 0]
File(n) == [kind |-> "file", size |-> n]

Http(st) == [kind |-> "http", status |-> st]
NetworkFailure == [kind |-> "network", status |-> 0]
TlsFailure == [kind |-> "tls", status |-> 0]

\* Failures a server or the network may answer any request with.
Faults == {NetworkFailure, TlsFailure, Http(401), Http(500)}

\* The resource a request path addresses (the server ignores empty segments).
ServerKey(path) == SplitPath(path)

KindOf(srv, k) == IF k = <<>> THEN "dir" ELSE IF k \in Res THEN srv[k].kind ELSE "none"

Parent(k) == SubSeq(k, 1, Len(k) - 1)

IsUnder(k, anc) == Len(k) > Len(anc) /\ SubSeq(k, 1, Len(anc)) = anc

\* HEAD: 200 for an existing resource, 404 otherwise.
HeadAnswer(srv, k) == IF KindOf(srv, k) # "none" THEN Http(200) ELSE Http(404)

\* PUT of n bytes: needs the parent collection, refuses a collection.
PutAnswer(srv, k, n) ==
    IF k \notin Res \/ KindOf(srv, Parent(k)) # "dir" THEN [resp |-> Http(409), srv |-> srv]
    ELSE IF KindOf(srv, k) = "dir" THEN [resp |-> Http(405), srv |-> srv]
    ELSE [resp |-> Http(IF KindOf(srv, k) = "none" THEN 201 ELSE 204),
          srv |-> [srv EXCEPT ![k] = File(n)]]

\* MKCOL: 405 on an existing resource, 409 without the parent collection.
MkcolAnswer(srv, k) ==
    IF KindOf(srv, k) # "none" THEN [resp |-> Http(405), srv |-> srv]
    ELSE IF k \notin Res \/ KindOf(srv, Parent(k)) # "dir" THEN [resp |-> Http(409), srv |-> srv]
    ELSE [resp |-> Http(201), srv |-> [srv EXCEPT ![k] = Dir]]

\* GET: the content of a file; a collection has no content of its own (405)
GetAnswer(srv, k) ==
    CASE KindOf(srv, k) = "none" -> Http(404)
      [] KindOf(srv, k) = "dir" -> Http(405)
      [] OTHER -> Http(200)

\* DELETE removes the resource and everything under it.
DeleteAnswer(srv, k) ==
    IF KindOf(srv, k) = "none" \/ k \notin Res THEN [resp |-> Http(404), srv |-> srv]
    ELSE [resp |-> Http(204),
          srv |-> [r \in Res |-> IF r = k \/ IsUnder(r, k) THEN None ELSE srv[r]]]

\* MOVE and COPY (RFC 4918): Overwrite "F" on an existing destination is 412;
\* a request without the header is treated as Overwrite "T".
TransferAnswer(srv, method, k, d, overwrite) ==
    IF KindOf(srv, k) = "none" \/ k \notin Res THEN [resp |-> Http(404), srv |-> srv]
    ELSE IF d \notin Res \/ KindOf(srv, Parent(d)) # "dir" THEN [resp |-> Http(409), srv |-> srv]
    ELSE IF d = k THEN [resp |-> Http(403), srv |-> srv]
    ELSE IF KindOf(srv, d) # "none" /\ overwrite = "F" THEN [resp |-> Http(412), srv |-> srv]
    ELSE [resp |-> Http(IF KindOf(srv, d) = "none" THEN 201 ELSE 204),
          srv |-> [r \in Res |->
                     IF r = d THEN srv[k]
                     ELSE IF r = k /\ method = "MOVE" THEN None
                     ELSE srv[r]]]

-----------------------------------------------------------------------------
(* URLs: new URL(path, base).toString() for http(s) URLs *)

Schemes == {"http://", "https://"}
Hosts == {"host", "other"}

\* Index of the first separator of s, 0 when there is none.
RECURSIVE FirstSlash(_, _)
FirstSlash(s, i) == IF i > Len(s) THEN 0
                    ELSE IF s[i] = Slash THEN i ELSE FirstSlash(s, i + 1)

\* s.split('/'): the segments between separators, empty ones kept.
RECURSIVE SplitOnSlash(_)
SplitOnSlash(s) ==
    LET i == FirstSlash(s, 1)
    IN  IF i = 0 THEN <<s>>
        ELSE <<SubSeq(s, 1, i - 1)>> \o SplitOnSlash(SubSeq(s, i + 1, Len(s)))

\* The URL parser's path state: "." and ".." segments are resolved, a trailing
\* one leaves an empty last segment.
RECURSIVE RemoveDots(_, _)
RemoveDots(acc, segs) ==
    IF Len(segs) = 0 THEN acc
    ELSE LET seg == Head(segs)
             last == Len(segs) = 1
             popped == IF Len(acc) > 0 THEN SubSeq(acc, 1, Len(acc) - 1) ELSE acc
         IN  IF seg = <<"..">>
             THEN RemoveDots(IF last THEN Append(popped, <<>>) ELSE popped, Tail(segs))
             ELSE IF seg = <<".">>
             THEN RemoveDots(IF last THEN Append(acc, <<>>) ELSE acc, Tail(segs))
             ELSE RemoveDots(Append(acc, seg), Tail(segs))

\* Path segments of the text after the host ("" and "/" are one empty segment).
PathSegments(rest) ==
    IF Len(rest) = 0 THEN << <<>> >>
    ELSE RemoveDots(<<>>, SplitOnSlash(Tail(rest)))

InvalidUrl == [ok |-> FALSE, scheme |-> "", host |-> "", segs |-> <<>>]

\* new URL(s): an absolute http(s) URL, or a TypeError (ok = FALSE).
ParseUrl(s) ==
    IF Len(s) >= 2 /\ s[1] \in Schemes /\ s[2] \in Hosts /\ (Len(s) = 2 \/ s[3] = Slash)
    THEN [ok |-> TRUE, scheme |-> s[1], host |-> s[2],
          segs |-> PathSegments(SubSeq(s, 3, Len(s)))]
    ELSE InvalidUrl

\* new URL(ref, base): resolution of a reference against a base URL.
ResolveUrl(ref, base) ==
    LET b == ParseUrl(base)
    IN  IF Len(ref) >= 1 /\ ref[1] \in Schemes THEN ParseUrl(ref)
        ELSE IF ~b.ok THEN InvalidUrl
        ELSE IF Len(ref) >= 2 /\ ref[1] = Slash /\ ref[2] = Slash
        THEN \* scheme-relative: an authority follows
             ParseUrl(<<b.scheme>> \o SubSeq(ref, 3, Len(ref)))
        ELSE IF Len(ref) >= 1 /\ ref[1] = Slash
        THEN [b EXCEPT !.segs = PathSegments(ref)]
        ELSE IF Len(ref) = 0 THEN b
        ELSE [b EXCEPT !.segs = RemoveDots(<<>>,
                  SubSeq(b.segs, 1, Len(b.segs) - 1) \o SplitOnSlash(ref))]

RECURSIVE JoinSegments(_)
JoinSegments(segs) ==
    IF Len(segs) = 0 THEN <<>>
    ELSE <<Slash>> \o Head(segs) \o JoinSegments(Tail(segs))

\* URL.toString()
UrlToString(u) == <<u.scheme, u.host>> \o JoinSegments(u.segs)

\* A destination passed on as it was given
createAbsoluteUrl_literal(base, path) == path

\* WebDAVClient.createAbsoluteUrl
createAbsoluteUrl(base, path) ==
    IF StartsWith(path, <<"http://">>) \/ StartsWith(path, <<"https://">>)
    THEN path
    ELSE LET u == ResolveUrl(path, base)
         IN  IF u.ok THEN UrlToString(u)
             ELSE \* catch: baseURL.replace(/\/$/, '') + '/' + path.replace(/^\//, '')
                  (IF EndsWithSlash(base) THEN SubSeq(base, 1, Len(base) - 1) ELSE base)
                  \o <<Slash>>
                  \o (IF StartsWith(path, <<Slash>>) THEN Tail(path) ELSE path)

\* axios: the URL a request on `path` is sent to (combineURLs of baseURL and a
\* relative url; an absolute url is used as it is).
RequestUrl(base, path) ==
    IF Len(path) >= 1 /\ path[1] \in Schemes THEN path
    ELSE LET RECURSIVE StripRight(_), StripLeft(_)
             StripRight(x) == IF EndsWithSlash(x) THEN StripRight(SubSeq(x, 1, Len(x) - 1)) ELSE x
             StripLeft(x) == IF StartsWith(x, <<Slash>>) THEN StripLeft(Tail(x)) ELSE x
         IN  IF Len(path) = 0 THEN base
             ELSE StripRight(base) \o <<Slash>> \o StripLeft(path)

\* The path segments of the base URL: the collection the server's tree hangs at
BasePath(base) == SelectSeq(ParseUrl(base).segs, LAMBDA g : g # <<>>)

\* The resource of the server's tree that a URL or an absolute path names,
\* <<"outside">> for one that is not under the base URL
ResourceOf(base, ref) ==
    LET u == ParseUrl(ref)
        segs == SelectSeq(IF u.ok THEN u.segs ELSE SplitOnSlash(ref), LAMBDA g : g # <<>>)
        root == BasePath(base)
    IN  IF (u.ok => u.host = ParseUrl(base).host)
           /\ Len(segs) >= Len(root) /\ SubSeq(segs, 1, Len(root)) = root
           /\ \A i \in 1..Len(segs) : Len(segs[i]) = 1
        THEN [i \in 1..(Len(segs) - Len(root)) |-> segs[i + Len(root)][1]]
        ELSE <<"outside">>

\* The resource a Destination header names
DestKey(base, url) == ResourceOf(base, url)

-----------------------------------------------------------------------------
(* JavaScript values of the parsed XML: every value carries its type in t *)

Undefined == [t |-> "undefined"]
NaN == [t |-> "nan"]
Throw == [t |-> "throw"]
Str(s) == [t |-> "str", v |-> s]
Num(n) == [t |-> "num", v |-> n]
Obj(f) == [t |-> "obj", v |-> f]
Arr(q) == [t |-> "arr", v |-> q]
EmptyObj == [t |-> "obj", v |-> <<>>]

\* JavaScript truthiness
Truthy(x) == CASE x.t = "undefined" -> FALSE
               [] x.t = "nan" -> FALSE
               [] x.t = "str" -> Len(x.v) > 0
               [] x.t = "num" -> x.v # 0
               [] OTHER -> TRUE

\* a || b
Or(a, b) == IF Truthy(a) THEN a ELSE b

\* obj[key] on a value that is not undefined (a primitive has no such property)
Get(obj, key) == IF obj.t = "obj" /\ key \in DOMAIN obj.v THEN obj.v[key] ELSE Undefined

\* Value of a run of decimal digits
RECURSIVE DigitsValue(_)
DigitsValue(ds) == IF Len(ds) = 0 THEN 0
                   ELSE 10 * DigitsValue(SubSeq(ds, 1, Len(ds) - 1)) + DigitValue(ds[Len(ds)])

AllDigits(ds) == Len(ds) > 0 /\ \A i \in 1..Len(ds) : IsDigit(ds[i])

\* XMLParser (parseTagValue): the text of an element becomes a number when it
\* reads as one, and stays a string otherwise.
XmlText(text) ==
    IF AllDigits(text) THEN Num(DigitsValue(text))
    ELSE IF Len(text) > 1 /\ text[1] = "-" /\ AllDigits(Tail(text))
    THEN Num(0 - DigitsValue(Tail(text)))
    ELSE Str(text)

\* String(x) of a number or a string
JsString(x) == IF x.t = "num"
               THEN (IF x.v < 0 THEN <<"-">> \o ToDecimal(0 - x.v) ELSE ToDecimal(x.v))
               ELSE x.v

\* The leading run of digits of s
RECURSIVE LeadingDigits(_)
LeadingDigits(s) == IF Len(s) > 0 /\ IsDigit(s[1])
                    THEN <<s[1]>> \o LeadingDigits(Tail(s)) ELSE <<>>

\* parseInt that stops after the first digit
parseInt_firstDigit(x) ==
    LET s == JsString(x)
        neg == Len(s) > 0 /\ s[1] = "-"
        body == IF neg THEN Tail(s) ELSE s
        ds == LeadingDigits(body)
    IN  IF Len(ds) = 0 THEN NaN
        ELSE Num(IF neg THEN 0 - DigitValue(ds[1]) ELSE DigitValue(ds[1]))

\* parseInt(x, 10)
parseInt(x) ==
    LET s == JsString(x)
        neg == Len(s) > 0 /\ s[1] = "-"
        body == IF neg THEN Tail(s) ELSE s
        ds == LeadingDigits(body)
    IN  IF Len(ds) = 0 THEN NaN
        ELSE Num(IF neg THEN 0 - DigitsValue(ds) ELSE DigitsValue(ds))

\* getField that does not know the upper-case prefix
Spellings_lowercase(name) == <<"d:" \o name, name, name>>

\* The three spellings under which an element of the DAV: namespace may come
Spellings(name) == <<"d:" \o name, "D:" \o name, name>>

\* getField(obj, 'd:x', 'D:x', 'x'): the first key that is defined; reading a
\* property of undefined raises a TypeError.
getField(obj, keys) ==
    IF obj.t \in {"undefined", "throw"} THEN Throw
    ELSE LET hits == {i \in 1..Len(keys) : Get(obj, keys[i]).t # "undefined"}
         IN  IF hits = {} THEN Undefined
             ELSE Get(obj, keys[CHOOSE i \in hits : \A j \in hits : i <= j])

\* decodeURIComponent: "%20" is an encoded space, a lone "%" is malformed
\* (URIError).
DecodeToken(tk) == IF tk = "%20" THEN " " ELSE tk

decodeURIComponent(s) ==
    IF \E i \in 1..Len(s) : s[i] = "%" THEN Throw
    ELSE Str([i \in 1..Len(s) |-> DecodeToken(s[i])])

\* status.includes('200') on a status line given as its words
Includes200(status) == \E i \in 1..Len(status.v) : status.v[i] = "200"

-----------------------------------------------------------------------------
(* Multistatus parsing and mapping to FileInfo *)

\* find that never matches: the first block is always the one used
FindSuccess_first(arr, i) == 0

\* propstatArray.find(ps => status && status.includes('200')): the index of the
\* first block that matches, 0 when none does, -1 when the callback raises.
RECURSIVE FindSuccess(_, _)
FindSuccess(arr, i) ==
    IF i > Len(arr) THEN 0
    ELSE LET status == getField(arr[i], Spellings("status"))
         IN  IF status.t = "throw" THEN -1
             ELSE IF ~Truthy(status) THEN FindSuccess(arr, i + 1)
             ELSE IF status.t # "str" THEN -1
             ELSE IF Includes200(status) THEN i
             ELSE FindSuccess(arr, i + 1)

\* WebDAVClient.normalizeWebDAVResponse: Throw, or the normalized record.
normalizeWebDAVResponse(response) ==
    LET href == getField(response, Spellings("href"))
        propstat == getField(response, Spellings("propstat"))
        propstatArray == IF propstat.t = "arr" THEN propstat.v ELSE <<propstat>>
        found == FindSuccess(propstatArray, 1)
        successPropstat == IF found > 0 THEN propstatArray[found]
                           ELSE IF Len(propstatArray) > 0 THEN propstatArray[1]
                           ELSE Undefined
        gotProp == getField(successPropstat, Spellings("prop"))
        prop == Or(gotProp, EmptyObj)
        hrefText == Or(href, Str(<<>>))
        decoded == IF hrefText.t = "str" THEN decodeURIComponent(hrefText.v)
                   ELSE Str(JsString(hrefText))
    IN  IF href.t = "throw" \/ found = -1 \/ gotProp.t = "throw" \/ decoded.t = "throw"
        THEN Throw
        ELSE [status |-> Or(getField(successPropstat, Spellings("status")),
                            Str(<<"HTTP/1.1", "200", "OK">>)),
              t |-> "ok",
              href |-> decoded.v,
              prop |-> [getcontentlength |-> getField(prop, Spellings("getcontentlength")),
                        getlastmodified |-> getField(prop, Spellings("getlastmodified")),
                        getcontenttype |-> getField(prop, Spellings("getcontenttype")),
                        getetag |-> getField(prop, Spellings("getetag")),
                        resourcetype |-> getField(prop, Spellings("resourcetype")),
                        displayname |-> getField(prop, Spellings("displayname"))]]

\* WebDAVClient.parseWebDAVResponse on the parsed document: Throw (the
\* WebDAVError "parse error", without a status code), or the list of records.
parseWebDAVResponse(parsed) ==
    LET multistatus == Or(Or(Get(parsed, "d:multistatus"), Get(parsed, "D:multistatus")),
                          Get(parsed, "multistatus"))
        responses == Or(Or(Get(multistatus, "d:response"), Get(multistatus, "D:response")),
                        Get(multistatus, "response"))
        list == IF responses.t = "arr" THEN responses.v ELSE <<responses>>
        mapped == [i \in 1..Len(list) |-> normalizeWebDAVResponse(list[i])]
    IN  IF ~Truthy(multistatus) THEN Throw
        ELSE IF \E i \in 1..Len(mapped) : mapped[i].t = "throw" THEN Throw
        ELSE [t |-> "ok", v |-> mapped]

\* path.basename (posix): the last non-empty segment, "" when there is none
Basename(s) == LET parts == SplitPath(s)
               IN  IF Len(parts) = 0 THEN <<>> ELSE <<parts[Len(parts)]>>

\* new Date().toISOString(), the substitute for a missing getlastmodified
Now == Str(<<"now">>)

\* WebDAVClient.webdavResponseToFileInfo
webdavResponseToFileInfo(response) ==
    LET prop == response.prop
        isDirectory == Truthy(prop.resourcetype)
                       /\ (Get(prop.resourcetype, "collection").t # "undefined"
                           \/ Get(prop.resourcetype, "d:collection").t # "undefined"
                           \/ Get(prop.resourcetype, "D:collection").t # "undefined")
    IN  [size |-> parseInt(Or(prop.getcontentlength, Str(<<"0">>))),
         filename |-> response.href,
         basename |-> Or(Or(Str(Basename(response.href)), prop.displayname), Str(<<>>)),
         type |-> IF isDirectory THEN "directory" ELSE "file",
         lastmod |-> Or(prop.getlastmodified, Now),
         mime |-> prop.getcontenttype,
         etag |-> prop.getetag]

-----------------------------------------------------------------------------
(* Outcomes of operations, and the control state of an invocation *)

Bool(b) == [t |-> "bool", v |-> b]
Info(fi) == [t |-> "info", v |-> fi]
List(files) == [t |-> "list", v |-> files]

\* A returned value, and a raised error (statusCode is optional on WebDAVError)
\* (message: which text the error carries; "" for the text of the throw itself)
Ok(value) == [kind |-> "ok", status |-> 0, cls |-> "", hasStatus |-> FALSE, value |-> value,
              message |-> ""]
Err(cls, hasStatus, status) ==
    [kind |-> "error", status |-> status, cls |-> cls, hasStatus |-> hasStatus,
     value |-> Undefined, message |-> ""]
NoResult == [kind |-> "none", status |-> 0, cls |-> "", hasStatus |-> FALSE,
             value |-> Undefined, op |-> "", args |-> <<>>, message |-> ""]

\* The outcome o of the operation op invoked with args, as the invocation's result
WithOp(o, op, args) == [kind |-> o.kind, status |-> o.status, cls |-> o.cls,
                        hasStatus |-> o.hasStatus, value |-> o.value, op |-> op, args |-> args,
                        message |-> o.message]

\* axios resolves a response with a 2xx status and rejects everything else
Success(resp) == resp.kind = "http" /\ resp.status >= 200 /\ resp.status < 300

\* handleError that reports a locked resource as a conflict
errorMessage_lockedAsConflict(resp) ==
    IF resp.kind # "http" THEN "axios"
    ELSE CASE resp.status = 401 -> "authentication"
           [] resp.status = 403 -> "forbidden"
           [] resp.status = 404 -> "not found"
           [] resp.status = 405 -> "method not supported"
           [] resp.status = 409 -> "conflict"
           [] resp.status = 412 -> "precondition failed"
           [] resp.status = 423 -> "conflict"
           [] resp.status = 507 -> "insufficient storage"
           [] OTHER -> "axios"

\* handleError: switch (statusCode), the text chosen for the message; the
\* default is the text of the axios error
errorMessage(resp) ==
    IF resp.kind # "http" THEN "axios"
    ELSE CASE resp.status = 401 -> "authentication"
           [] resp.status = 403 -> "forbidden"
           [] resp.status = 404 -> "not found"
           [] resp.status = 405 -> "method not supported"
           [] resp.status = 409 -> "conflict"
           [] resp.status = 412 -> "precondition failed"
           [] resp.status = 423 -> "locked"
           [] resp.status = 507 -> "insufficient storage"
           [] OTHER -> "axios"

\* WebDAVClient.handleError: a WebDAVError carrying the response's status, if any
handleError(resp) ==
    [Err("WebDAVError", resp.kind = "http", resp.status) EXCEPT !.message = errorMessage(resp)]

NoCall == [op |-> "none", path |-> <<>>, dest |-> <<>>, overwrite |-> "undefined", len |-> 0,
           deep |-> "undefined"]
ClientCall(op, path, dest, overwrite, len) ==
    [op |-> op, path |-> path, dest |-> dest, overwrite |-> overwrite, len |-> len,
     deep |-> "undefined"]

\* getDirectoryContents(dirPath, {deep})
ListCall(dirPath, deep) ==
    [ClientCall("getDirectoryContents", dirPath, <<>>, "undefined", 0) EXCEPT !.deep = deep]

NoNode == [op |-> "none", path |-> <<>>, overwrite |-> FALSE, len |-> 0,
           label |-> "", target |-> <<>>, parents |-> FALSE,
           parts |-> <<>>, idx |-> 0, cur |-> <<>>, after |-> "", recursive |-> FALSE]

\* options.overwrite as the node passes it: always a boolean
JsBool(b) == IF b THEN "true" ELSE "false"

\* Where a client operation starts
FirstPc(c) ==
    CASE c.op = "exists" -> "head"
      [] c.op \in {"putFileContents", "putFileStream"} ->
            (IF c.overwrite = "true" THEN "put" ELSE "put_exists")
      [] c.op \in {"getFileContents", "getFileStream"} -> "get"
      [] c.op = "createDirectory" -> "mkcol"
      [] c.op = "deleteFile" -> "delete"
      [] c.op \in {"moveFile", "copyFile"} -> "transfer"
      [] c.op = "stat" -> "propfind"
      [] c.op = "getDirectoryContents" -> "propfind_list"

\* The node awaits a client call and continues at n.label when it returns
CallClient(c, n) == [pc |-> FirstPc(c), call |-> c, node |-> n, result |-> NoResult]

\* The node's handling of one item ends with outcome o
NodeDone(n, o) == [pc |-> "idle", call |-> NoCall, node |-> NoNode,
                   result |-> WithOp(o, n.op, n)]

At(n, label) == [n EXCEPT !.label = label]

\* execute(), FileOperation.UPLOAD: putFileContents, then stat
UploadPut(n) ==
    CallClient(ClientCall("putFileContents", n.path, <<>>, JsBool(n.overwrite), n.len),
               At(n, "up_put"))

\* execute(), FileOperation.UPLOAD: the existence check before the upload
UploadCheck(n) ==
    IF ~n.overwrite
    THEN CallClient(ClientCall("exists", n.path, <<>>, "undefined", 0), At(n, "up_exists"))
    ELSE UploadPut(n)

\* execute(), FileOperation.MOVE: the moveFile call
MoveCall(n) ==
    CallClient(ClientCall("moveFile", n.path, n.target, JsBool(n.overwrite), 0),
               At(n, "mv_move"))

\* What follows the parent-directory helper in the operation that called it
AfterParents(n) ==
    CASE n.after = "create" -> NodeDone(n, Ok(Bool(FALSE)))
      [] n.after = "upload" -> UploadCheck(n)
      [] n.after = "move" -> MoveCall(n)

\* createParentDirectories: the head of the loop over the parts; the next part
\* is appended to currentPath and checked with exists
createParentDirectories_next(n) ==
    IF n.idx < Len(n.parts)
    THEN LET currentPath == n.cur \o <<Slash, n.parts[n.idx + 1]>>
         IN  CallClient(ClientCall("exists", currentPath, <<>>, "undefined", 0),
                        [n EXCEPT !.idx = @ + 1, !.cur = currentPath, !.label = "h_exists"])
    ELSE AfterParents(n)

\* A helper that creates every level without looking at what exists returned
createParentDirectories_exists_unchecked(n, found) ==
    CallClient(ClientCall("createDirectory", n.cur, <<>>, "undefined", 0), At(n, "h_mkdir"))

\* createParentDirectories: const exists = await client.exists(currentPath);
\* if (!exists) await client.createDirectory(currentPath)
createParentDirectories_exists(n, found) ==
    IF ~found
    THEN CallClient(ClientCall("createDirectory", n.cur, <<>>, "undefined", 0), At(n, "h_mkdir"))
    ELSE createParentDirectories_next(n)

\* A helper that takes the first part as present and starts with the second
createParentDirectories_fromSecond(n, dirPath, after) ==
    LET parts == SplitPath(dirPath)
    IN  createParentDirectories_next(
            [n EXCEPT !.parts = parts, !.idx = IF Len(parts) > 1 THEN 1 ELSE 0,
                      !.cur = IF Len(parts) > 1 THEN <<Slash, parts[1]>> ELSE <<>>,
                      !.after = after])

\* createParentDirectories(dirPath), called from the operation `after`
createParentDirectories(n, dirPath, after) ==
    createParentDirectories_next(
        [n EXCEPT !.parts = SplitPath(dirPath), !.idx = 0, !.cur = <<>>, !.after = after])

\* The helper run only for a directory more than two levels deep
ParentsOf_nested(n, p, after) ==
    IF n.parents /\ Len(SplitPath(Dirname(p))) > 2
    THEN createParentDirectories(n, Dirname(p), after)
    ELSE AfterParents([n EXCEPT !.after = after])

\* if (createParentFolders) { dirPath = path.dirname(p); if (dirPath !== '/' &&
\* dirPath !== '.') await createParentDirectories(dirPath) }
ParentsOf(n, p, after) ==
    IF n.parents /\ Dirname(p) # <<Slash>> /\ Dirname(p) # <<".">>
    THEN createParentDirectories(n, Dirname(p), after)
    ELSE AfterParents([n EXCEPT !.after = after])

NodeError == Err("NodeOperationError", FALSE, 0)

\* execute(): the continuation of the item's operation when the awaited client
\* call returns outcome o; an error leaves the try block, except in the stat
\* that follows a move.
NodeResume(n, o) ==
    IF o.kind = "error" /\ n.label # "mv_stat" THEN NodeDone(n, o)
    ELSE CASE n.label = "h_exists" -> createParentDirectories_exists(n, o.value.v)
           [] n.label = "h_mkdir" -> createParentDirectories_next(n)
           [] n.label = "fc_exists" ->
                (IF o.value.v THEN NodeDone(n, Ok(Bool(TRUE)))
                 ELSE IF n.parents THEN createParentDirectories(n, n.path, "create")
                 ELSE CallClient(ClientCall("createDirectory", n.path, <<>>, "undefined", 0),
                                 At(n, "fc_mkdir")))
           [] n.label = "fc_mkdir" -> NodeDone(n, Ok(Bool(FALSE)))
           [] n.label = "up_exists" ->
                (IF o.value.v THEN NodeDone(n, NodeError) ELSE UploadPut(n))
           [] n.label = "up_put" ->
                CallClient(ClientCall("stat", n.path, <<>>, "undefined", 0), At(n, "up_stat"))
           [] n.label = "up_stat" -> NodeDone(n, o)
           [] n.label = "mv_src" ->
                (IF ~o.value.v THEN NodeDone(n, NodeError)
                 ELSE CallClient(ClientCall("exists", n.target, <<>>, "undefined", 0),
                                 At(n, "mv_dst")))
           [] n.label = "mv_dst" ->
                (IF o.value.v /\ ~n.overwrite THEN NodeDone(n, NodeError)
                 ELSE ParentsOf(n, n.target, "move"))
           [] n.label = "mv_move" ->
                CallClient(ClientCall("stat", n.target, <<>>, "undefined", 0), At(n, "mv_stat"))
           [] n.label = "mv_stat" ->
                (IF o.kind = "error" THEN NodeDone(n, Ok(Undefined)) ELSE NodeDone(n, o))
           [] n.label = "ls_exists" ->
                (IF ~o.value.v THEN NodeDone(n, NodeError)
                 ELSE CallClient(ListCall(n.path, JsBool(n.recursive)), At(n, "ls_list")))
           [] n.label = "ls_list" ->
                \* if (item.filename === filePath) continue
                NodeDone(n, Ok(List(SelectSeq(o.value.v, LAMBDA item : item.filename # n.path))))

\* No error has left execute()
NoError == [cls |-> "", itemIndex |-> -1]

\* execute() is not running: no input items, no output
NoExecution == [continueOnFail |-> FALSE, items |-> <<>>, returnData |-> <<>>, error |-> NoError]

\* No second operation is in flight
NoOther == [pc |-> "idle", call |-> NoCall, node |-> NoNode, result |-> NoResult, log |-> <<>>]

SetControl(c) == pc' = c.pc /\ call' = c.call /\ node' = c.node /\ result' = c.result

\* The running client operation ends with outcome o: a direct invocation is
\* over, a call made by the node returns to the node.
Finish(o) ==
    IF node.op = "none"
    THEN SetControl([pc |-> "idle", call |-> NoCall, node |-> NoNode,
                     result |-> WithOp(o, call.op, call)])
    ELSE SetControl(NodeResume(node, o))

-----------------------------------------------------------------------------
(* The requests of the client operations *)

\* One HTTP exchange: what was sent and what came back; `by` is the place in
\* execute() that awaits the client call ("" for a direct call), `data` the
\* parsed body of a multistatus answer
Request(method, path, dest, overwrite, depth, len, resp) ==
    [resp |-> resp, path |-> path, dest |-> dest, overwrite |-> overwrite, len |-> len,
     method |-> method, depth |-> depth, by |-> node.label, data |-> Undefined]

\* A request that changes nothing answers faithfully or with a failure; one
\* that changes the server is not applied when it fails.
HeadAnswers(srv, k) == {HeadAnswer(srv, k)} \cup faults
WithFaults(answer, srv) == {answer} \cup {[resp |-> f, srv |-> srv] : f \in faults}

\* exists with a catch that returns false for a 404 only and raises the rest
existsOutcome_raising(resp) ==
    IF Success(resp)
    THEN Ok(Bool(resp.status >= 200 /\ resp.status < 300))
    ELSE IF resp.kind = "http" /\ resp.status = 404 THEN Ok(Bool(FALSE))
         ELSE handleError(resp)

\* exists that takes a refused HEAD (401, 403) for a resource that is there
existsOutcome_presentOnDenial(resp) ==
    IF Success(resp) \/ (resp.kind = "http" /\ resp.status \in {401, 403})
    THEN Ok(Bool(TRUE))
    ELSE Ok(Bool(FALSE))

\* WebDAVClient.exists: the outcome for the HEAD's answer
existsOutcome(resp) ==
    IF Success(resp)
    THEN Ok(Bool(resp.status >= 200 /\ resp.status < 300))
    ELSE \* catch: false for a 404, and false for every other error
         IF resp.kind = "http" /\ resp.status = 404 THEN Ok(Bool(FALSE)) ELSE Ok(Bool(FALSE))

\* An Overwrite header that is always set, F unless the option is true
OverwriteHeader_always(overwrite) == IF overwrite = "true" THEN "T" ELSE "F"

\* moveFile / copyFile: the Overwrite header for options.overwrite ("none": no
\* header is set)
OverwriteHeader(overwrite) ==
    IF overwrite # "undefined" THEN (IF overwrite = "true" THEN "T" ELSE "F") ELSE "none"

\* moveFile / copyFile: the Destination header
DestinationHeader(base, destination) == createAbsoluteUrl(base, destination)

HrefStyles == {"path", "bare", "url"}

\* The href under which the server reports resource k: its absolute path, a
\* collection's with a trailing separator (style "path") or without one
\* ("bare"), or the whole URL ("url")
ServerHref(base, srv, k, style) ==
    LET segs == BasePath(base) \o [i \in 1..Len(k) |-> <<k[i]>>]
        path == IF Len(segs) = 0 THEN <<Slash>>
                ELSE JoinSegments(segs)
                     \o (IF KindOf(srv, k) = "dir" /\ style # "bare" THEN <<Slash>> ELSE <<>>)
    IN  IF style = "url" THEN <<ParseUrl(base).scheme, ParseUrl(base).host>> \o path
        ELSE path

\* The server's parsed answer to a PROPFIND with Depth 0 on resource k, asked
\* for as `path`: one response record, every element spelled with prefix d:
PropfindRecord(srv, k, href) ==
    Obj(("d:href" :> Str(href))
        @@ ("d:propstat" :>
              Obj(("d:status" :> Str(<<"HTTP/1.1", "200", "OK">>))
                  @@ ("d:prop" :>
                        Obj(IF KindOf(srv, k) = "dir"
                            THEN ("d:resourcetype" :> Obj("d:collection" :> Str(<<>>)))
                            ELSE ("d:resourcetype" :> Str(<<>>))
                                 @@ ("d:getcontentlength" :>
                                       XmlText(ToDecimal(srv[k].size))))))))

PropfindDocument(records) ==
    Obj("d:multistatus" :>
          Obj("d:response" :> (IF Len(records) = 1 THEN records[1] ELSE Arr(records))))

\* stat that maps the last record of the answer
statOutcome_last(document) ==
    LET webdavResponses == parseWebDAVResponse(document)
    IN  IF webdavResponses.t = "throw" THEN Err("WebDAVError", FALSE, 0)
        ELSE IF Len(webdavResponses.v) = 0 THEN Err("WebDAVError", TRUE, 404)
        ELSE Ok(Info(webdavResponseToFileInfo(webdavResponses.v[Len(webdavResponses.v)])))

\* WebDAVClient.stat: the outcome for the parsed multistatus document
statOutcome(document) ==
    LET webdavResponses == parseWebDAVResponse(document)
    IN  IF webdavResponses.t = "throw" THEN Err("WebDAVError", FALSE, 0)
        ELSE IF Len(webdavResponses.v) = 0 THEN Err("WebDAVError", TRUE, 404)
        ELSE Ok(Info(webdavResponseToFileInfo(webdavResponses.v[1])))

\* execute(), catch: the entry an error leaves in the output
errorDetails(o) ==
    [status |-> o.status, type |-> IF o.cls = "WebDAVError" THEN "WebDAVError" ELSE "undefined",
     op |-> "undefined", path |-> <<>>, error |-> TRUE]

\* execute(): the entry an operation's responseData leaves in the output
responseData(o) ==
    [status |-> 0, type |-> "undefined", op |-> o.op, path |-> o.args.path, error |-> FALSE]

\* An item loop that goes on after an error whatever continueOnFail() says
ItemEnd_continuing(e, i, o) ==
    [e EXCEPT !.returnData = Append(@, IF o.kind = "error" THEN errorDetails(o)
                                       ELSE responseData(o))]

\* execute(): the end of item i with outcome o: responseData is pushed to
\* returnData; an error is pushed when continueOnFail() holds and leaves
\* execute() as a NodeOperationError with itemIndex i otherwise
ItemEnd(e, i, o) ==
    IF o.kind = "error"
    THEN IF e.continueOnFail
         THEN [e EXCEPT !.returnData = Append(@, errorDetails(o))]
         ELSE [e EXCEPT !.error = [cls |-> "NodeOperationError", itemIndex |-> i]]
    ELSE [e EXCEPT !.returnData = Append(@, responseData(o))]

\* A run of execute() goes on to the end of the item when the item's last
\* client call has returned (i is calls - 1: the items taken before this one)
Executed ==
    execution' = IF execution.items # <<>> /\ node.op # "none" /\ pc' = "idle"
                 THEN ItemEnd(execution, calls - 1, result')
                 ELSE execution

\* An operation that replaces the base URL of the client while it runs
Unchanged_rebased ==
    /\ baseURL' = IF pc = "transfer" THEN <<"https://", "other", Slash>> ELSE baseURL
    /\ UNCHANGED <<maxBodyLength, faults, calls, mkcols, other>>
    /\ Executed

Unchanged ==
    /\ UNCHANGED <<baseURL, maxBodyLength, faults, calls, mkcols, other>>
    /\ Executed

\* WebDAVClient.exists
exists ==
    /\ pc = "head"
    /\ \E resp \in HeadAnswers(server, ServerKey(call.path)) :
          /\ log' = Append(log, Request("HEAD", call.path, <<>>, "none", "", 0, resp))
          /\ faulted' = (faulted \/ resp \in faults)
          /\ Finish(existsOutcome(resp))
    /\ UNCHANGED <<server, written>>
    /\ Unchanged

\* The existence check of an upload without the throw: the PUT follows anyway
putFile_exists_ignored ==
    /\ pc = "put_exists"
    /\ \E resp \in HeadAnswers(server, ServerKey(call.path)) :
          /\ log' = Append(log, Request("HEAD", call.path, <<>>, "none", "", 0, resp))
          /\ faulted' = (faulted \/ resp \in faults)
          /\ pc' = "put" /\ UNCHANGED <<call, node, result>>
    /\ UNCHANGED <<server, written>>
    /\ Unchanged

\* putFileContents / putFileStream: if (!options.overwrite) { exists(filePath);
\* throw the 409 WebDAVError when it is true }
putFile_exists ==
    /\ pc = "put_exists"
    /\ \E resp \in HeadAnswers(server, ServerKey(call.path)) :
          LET o == existsOutcome(resp)
          IN  /\ log' = Append(log, Request("HEAD", call.path, <<>>, "none", "", 0, resp))
              /\ faulted' = (faulted \/ resp \in faults)
              /\ IF o.kind = "error" THEN Finish(o)
                 ELSE IF o.value.v THEN Finish(Err("WebDAVError", TRUE, 409))
                 ELSE pc' = "put" /\ UNCHANGED <<call, node, result>>
    /\ UNCHANGED <<server, written>>
    /\ Unchanged

\* axios rejects a request whose body is larger than the limit before it
\* sends anything; the error has no response
LocalFailure == [kind |-> "local", status |-> 0]

\* A client that sends bodies of any size
ExceedsLimit_never(c, limit) == FALSE

\* The body of the PUT of call c is larger than the limit in force for it:
\* putFileStream passes maxBodyLength: Infinity with its request
ExceedsLimit(c, limit) == c.op = "putFileContents" /\ c.len > limit

\* A PUT that is sent a second time when the first attempt fails
putFile_put_retrying ==
    /\ pc = "put"
    /\ ~ExceedsLimit(call, maxBodyLength)
    /\ LET k == ServerKey(call.path)
       IN  \E a \in WithFaults(PutAnswer(server, k, call.len), server) :
              /\ log' = Append(log, Request("PUT", call.path, <<>>, "none", "", call.len, a.resp))
              /\ faulted' = (faulted \/ a.resp \in faults)
              /\ server' = a.srv
              /\ written' = IF Success(a.resp) THEN [written EXCEPT ![k] = call.len]
                            ELSE written
              /\ IF ~Success(a.resp) /\ \A i \in 1..Len(log) : log[i].method # "PUT"
                 THEN UNCHANGED <<pc, call, node, result>>
                 ELSE Finish(IF Success(a.resp) THEN Ok(Undefined) ELSE handleError(a.resp))
    /\ Unchanged

\* putFileContents / putFileStream: the PUT, which axios does not send when
\* the body exceeds the limit
putFile_put ==
    /\ pc = "put"
    /\ IF ExceedsLimit(call, maxBodyLength)
       THEN /\ Finish(handleError(LocalFailure))
            /\ UNCHANGED <<log, server, written, faulted>>
       ELSE LET k == ServerKey(call.path)
            IN  \E a \in WithFaults(PutAnswer(server, k, call.len), server) :
                   /\ log' = Append(log, Request("PUT", call.path, <<>>, "none", "", call.len,
                                                 a.resp))
                   /\ faulted' = (faulted \/ a.resp \in faults)
                   /\ server' = a.srv
                   /\ written' = IF Success(a.resp) THEN [written EXCEPT ![k] = call.len]
                                 ELSE written
                   /\ Finish(IF Success(a.resp) THEN Ok(Undefined) ELSE handleError(a.resp))
    /\ Unchanged

\* WebDAVClient.createDirectory
createDirectory ==
    /\ pc = "mkcol"
    /\ \E a \in WithFaults(MkcolAnswer(server, ServerKey(call.path)), server) :
          /\ log' = Append(log, Request("MKCOL", call.path, <<>>, "none", "", 0, a.resp))
          /\ faulted' = (faulted \/ a.resp \in faults)
          /\ server' = a.srv
          /\ mkcols' = IF node.label = "h_mkdir" /\ ServerKey(call.path) \in Res
                       THEN [mkcols EXCEPT ![ServerKey(call.path)] = @ + 1]
                       ELSE mkcols
          /\ Finish(IF Success(a.resp) THEN Ok(Undefined) ELSE handleError(a.resp))
    /\ UNCHANGED <<baseURL, maxBodyLength, faults, calls, written, other>>
    /\ Executed

\* response.data of a GET: the content (text, Buffer or stream) by its length
Data(n) == [t |-> "data", v |-> n]

\* WebDAVClient.getFileContents and getFileStream
getFile ==
    /\ pc = "get"
    /\ LET k == ServerKey(call.path)
       IN  \E resp \in {GetAnswer(server, k)} \cup faults :
              /\ log' = Append(log, [Request("GET", call.path, <<>>, "none", "", 0, resp)
                                      EXCEPT !.data = IF Success(resp) THEN Data(server[k].size)
                                                      ELSE Undefined])
              /\ faulted' = (faulted \/ resp \in faults)
              /\ Finish(IF Success(resp) THEN Ok(Data(server[k].size)) ELSE handleError(resp))
    /\ UNCHANGED <<server, written>>
    /\ Unchanged

\* WebDAVClient.deleteFile
deleteFile ==
    /\ pc = "delete"
    /\ LET k == ServerKey(call.path)
       IN  \E a \in WithFaults(DeleteAnswer(server, k), server) :
              /\ log' = Append(log, Request("DELETE", call.path, <<>>, "none", "", 0, a.resp))
              /\ faulted' = (faulted \/ a.resp \in faults)
              /\ server' = a.srv
              /\ written' = IF Success(a.resp)
                            THEN [r \in Res |-> IF r = k \/ IsUnder(r, k) THEN -1 ELSE written[r]]
                            ELSE written
              /\ Finish(IF Success(a.resp) THEN Ok(Undefined) ELSE handleError(a.resp))
    /\ Unchanged

\* A moveFile / copyFile that checks the destination itself, as the uploads do:
\* without overwrite it raises the 409 conflict and sends nothing when the
\* destination exists
transferFile_prechecked ==
    /\ pc = "transfer"
    /\ LET method == IF call.op = "moveFile" THEN "MOVE" ELSE "COPY"
           destination == DestinationHeader(baseURL, call.dest)
           overwrite == OverwriteHeader(call.overwrite)
           k == ServerKey(call.path)
           d == DestKey(baseURL, destination)
       IN  IF call.overwrite # "true" /\ KindOf(server, d) # "none"
           THEN /\ Finish(Err("WebDAVError", TRUE, 409))
                /\ UNCHANGED <<log, faulted, server, written>>
           ELSE \E a \in WithFaults(TransferAnswer(server, method, k, d, overwrite), server) :
                  /\ log' = Append(log, Request(method, call.path, destination, overwrite,
                                                "", 0, a.resp))
                  /\ faulted' = (faulted \/ a.resp \in faults)
                  /\ server' = a.srv
                  /\ written' = written
                  /\ Finish(IF Success(a.resp) THEN Ok(Undefined) ELSE handleError(a.resp))
    /\ Unchanged

\* WebDAVClient.moveFile and WebDAVClient.copyFile
transferFile ==
    /\ pc = "transfer"
    /\ LET method == IF call.op = "moveFile" THEN "MOVE" ELSE "COPY"
           destination == DestinationHeader(baseURL, call.dest)
           overwrite == OverwriteHeader(call.overwrite)
           k == ServerKey(call.path)
           d == DestKey(baseURL, destination)
       IN  \E a \in WithFaults(TransferAnswer(server, method, k, d, overwrite), server) :
              /\ log' = Append(log, Request(method, call.path, destination, overwrite,
                                            "", 0, a.resp))
              /\ faulted' = (faulted \/ a.resp \in faults)
              /\ server' = a.srv
              /\ written' = IF Success(a.resp)
                            THEN [r \in Res |->
                                    IF r = d \/ (r = k /\ method = "MOVE") THEN -1
                                    ELSE written[r]]
                            ELSE written
              /\ Finish(IF Success(a.resp) THEN Ok(Undefined) ELSE handleError(a.resp))
    /\ Unchanged

\* An answer to a PROPFIND: the response and, for a 207, its parsed body
Answer(resp, data) == [resp |-> resp, data |-> data]

\* The answers to a PROPFIND on resource k: a 404 when it does not exist, a
\* 207 carrying one of `documents` when it does, or a fault
PropfindAnswers(srv, k, documents) ==
    {Answer(resp, Undefined) :
        resp \in faults \cup (IF KindOf(srv, k) = "none" THEN {Http(404)} ELSE {})}
    \cup (IF KindOf(srv, k) = "none" THEN {}
          ELSE {Answer(Http(207), document) : document \in documents})

\* WebDAVClient.stat, the PROPFIND answered by one of `answers`
statAnswered(answers) ==
    /\ pc = "propfind"
    /\ \E a \in answers :
          /\ log' = Append(log, [Request("PROPFIND", call.path, <<>>, "none", "0", 0, a.resp)
                                   EXCEPT !.data = a.data])
          /\ faulted' = (faulted \/ a.resp \in faults)
          /\ Finish(IF Success(a.resp) THEN statOutcome(a.data) ELSE handleError(a.resp))
    /\ UNCHANGED <<server, written>>
    /\ Unchanged

\* WebDAVClient.stat against a server that describes the resource as it is
stat ==
    LET k == ServerKey(call.path)
    IN  statAnswered(PropfindAnswers(server, k,
            {PropfindDocument(<<PropfindRecord(server, k,
                                               ServerHref(baseURL, server, k, "path"))>>)}))

\* The resources a PROPFIND on collection k reports besides k itself: its
\* children with Depth 1, everything under it with Depth infinity
ResOrder == <<(<<"a">>), (<<"b">>), (<<"new">>), (<<"new", "sub">>), (<<"new", "sub", "f">>)>>
Members(srv, k, depth) ==
    SelectSeq(ResOrder, LAMBDA r : /\ KindOf(srv, r) # "none"
                                   /\ IsUnder(r, k)
                                   /\ (depth = "infinity" \/ Len(r) = Len(k) + 1))

\* The server's parsed answer to a PROPFIND with Depth 1 or infinity on
\* resource k: the record of k itself, then those of its members
ListDocument(base, srv, k, depth, style) ==
    LET reported == <<k>> \o Members(srv, k, depth)
    IN  PropfindDocument([i \in 1..Len(reported) |->
            PropfindRecord(srv, reported[i], ServerHref(base, srv, reported[i], style))])

\* getDirectoryContents: the path the PROPFIND is sent to
NormalizedPath(dirPath) == IF EndsWithSlash(dirPath) THEN dirPath ELSE dirPath \o <<Slash>>

\* getDirectoryContents: the test that skips the record of the directory itself
IsListedDirectory(href, dirPath) ==
    LET normalizedPath == NormalizedPath(dirPath)
    IN  \/ href = normalizedPath
        \/ href = dirPath
        \/ href = SubSeq(normalizedPath, 1, Len(normalizedPath) - 1)
        \/ href \o <<Slash>> = normalizedPath

\* getDirectoryContents that leaves out the records it cannot normalize
listOutcome_skipping(document, dirPath) ==
    LET multistatus == Or(Or(Get(document, "d:multistatus"), Get(document, "D:multistatus")),
                          Get(document, "multistatus"))
        responses == Or(Or(Get(multistatus, "d:response"), Get(multistatus, "D:response")),
                        Get(multistatus, "response"))
        list == IF responses.t = "arr" THEN responses.v ELSE <<responses>>
        mapped == [i \in 1..Len(list) |-> normalizeWebDAVResponse(list[i])]
        kept == SelectSeq(mapped, LAMBDA r : r.t # "throw" /\ ~IsListedDirectory(r.href, dirPath))
    IN  IF ~Truthy(multistatus) THEN Err("WebDAVError", FALSE, 0)
        ELSE Ok(List([i \in 1..Len(kept) |-> webdavResponseToFileInfo(kept[i])]))

\* WebDAVClient.getDirectoryContents: the outcome for the parsed multistatus
\* document
listOutcome(document, dirPath) ==
    LET webdavResponses == parseWebDAVResponse(document)
    IN  IF webdavResponses.t = "throw" THEN Err("WebDAVError", FALSE, 0)
        ELSE LET kept == SelectSeq(webdavResponses.v,
                                   LAMBDA r : ~IsListedDirectory(r.href, dirPath))
             IN  Ok(List([i \in 1..Len(kept) |-> webdavResponseToFileInfo(kept[i])]))

\* getDirectoryContents: the Depth header
DepthHeader(c) == IF c.deep = "true" THEN "infinity" ELSE "1"

\* WebDAVClient.getDirectoryContents, the PROPFIND answered by one of `answers`
getDirectoryContentsAnswered(answers) ==
    /\ pc = "propfind_list"
    /\ \E a \in answers :
          /\ log' = Append(log, [Request("PROPFIND", NormalizedPath(call.path), <<>>,
                                          "none", DepthHeader(call), 0, a.resp)
                                   EXCEPT !.data = a.data])
          /\ faulted' = (faulted \/ a.resp \in faults)
          /\ Finish(IF Success(a.resp) THEN listOutcome(a.data, call.path)
                    ELSE handleError(a.resp))
    /\ UNCHANGED <<server, written>>
    /\ Unchanged

\* WebDAVClient.getDirectoryContents against a server that lists the
\* collection as it is
getDirectoryContents ==
    LET k == ServerKey(call.path)
    IN  getDirectoryContentsAnswered(PropfindAnswers(server, k,
            {ListDocument(baseURL, server, k, DepthHeader(call), style) :
                style \in HrefStyles}))

-----------------------------------------------------------------------------
(* Direct use of the client: one operation at a time on /a and /b *)

RootURL == <<"https://", "host", "/">>

FacadePaths == {<<Slash, "a">>, <<Slash, "b">>}
Destinations == {<<Slash, "a">>, <<Slash, "b">>, <<"b">>, <<"https://", "host", Slash, "b">>}
OverwriteOptions == {"true", "false", "undefined"}
Lengths == {0, 1, MaxLen}

Init ==
    /\ baseURL = RootURL
    /\ \E fa \in {None, File(1)}, fb \in {None, File(MaxLen)} :
          server = [r \in Res |-> IF r = <<"a">> THEN fa ELSE IF r = <<"b">> THEN fb ELSE None]
    /\ log = <<>>
    /\ pc = "idle"
    /\ call = NoCall
    /\ node = NoNode
    /\ result = NoResult
    /\ calls = 0
    /\ written = [r \in Res |-> -1]
    /\ mkcols = [r \in Res |-> 0]
    /\ faulted = FALSE
    /\ maxBodyLength = MaxLen
    /\ faults = Faults
    /\ other = NoOther
    /\ execution = NoExecution

\* The caller invokes client operation c
Invoke(c) ==
    /\ pc = "idle"
    /\ calls < MaxCalls
    /\ calls' = calls + 1
    /\ log' = <<>>
    /\ SetControl(CallClient(c, NoNode))
    /\ UNCHANGED <<baseURL, maxBodyLength, faults, server, written, mkcols, faulted, other,
                   execution>>

call_exists == \E p \in FacadePaths : Invoke(ClientCall("exists", p, <<>>, "undefined", 0))

call_putFileContents ==
    \E p \in FacadePaths, ow \in OverwriteOptions, n \in Lengths :
        Invoke(ClientCall("putFileContents", p, <<>>, ow, n))

call_putFileStream ==
    \E p \in FacadePaths, ow \in OverwriteOptions, n \in Lengths :
        Invoke(ClientCall("putFileStream", p, <<>>, ow, n))

call_createDirectory ==
    \E p \in FacadePaths : Invoke(ClientCall("createDirectory", p, <<>>, "undefined", 0))

call_deleteFile ==
    \E p \in FacadePaths : Invoke(ClientCall("deleteFile", p, <<>>, "undefined", 0))

call_moveFile ==
    \E p \in FacadePaths, d \in Destinations, ow \in OverwriteOptions :
        Invoke(ClientCall("moveFile", p, d, ow, 0))

call_copyFile ==
    \E p \in FacadePaths, d \in Destinations, ow \in OverwriteOptions :
        Invoke(ClientCall("copyFile", p, d, ow, 0))

call_stat == \E p \in FacadePaths : Invoke(ClientCall("stat", p, <<>>, "undefined", 0))

Next ==
    \/ call_exists
    \/ call_putFileContents
    \/ call_putFileStream
    \/ call_createDirectory
    \/ call_deleteFile
    \/ call_moveFile
    \/ call_copyFile
    \/ call_stat
    \/ exists
    \/ putFile_exists
    \/ putFile_put
    \/ createDirectory
    \/ deleteFile
    \/ transferFile
    \/ stat

Spec == Init /\ [][Next]_vars

-----------------------------------------------------------------------------
(* Claims about the client's operations *)

PutOps == {"putFileContents", "putFileStream"}

\* A direct invocation of client operation op has just finished
Finished(op) == pc = "idle" /\ node.op = "none" /\ result.op = op

Methods(l) == [i \in 1..Len(l) |-> l[i].method]

\* C1: exists(path) issues exactly one HEAD and never raises: it returns true
\* when the HEAD is answered with a 2xx status and false for a 404 and for
\* every other failure (no response, TLS failure, any other status).
C1_ExistsNeverRaises ==
    Finished("exists") =>
        /\ result.kind = "ok"
        /\ Methods(log) = <<"HEAD">>
        /\ log[1].path = result.args.path
        /\ result.value.v = (log[1].resp.kind = "http"
                             /\ log[1].resp.status \in 200..299)

\* C1 witness: an exists whose HEAD got no response at all has returned false
C1_Witness ==
    /\ Finished("exists")
    /\ log[1].resp = NetworkFailure
    /\ result.kind = "ok" /\ result.value.v = FALSE

\* C2: with overwrite not set, a putFileContents / putFileStream whose
\* exists(path) is true raises the 409 conflict and transmits no PUT; whenever
\* a PUT is transmitted without overwrite, the HEAD of the same path precedes it.
C2_ConflictBeforePut ==
    LET args == IF pc = "idle" THEN result.args ELSE call
        op == IF pc = "idle" THEN result.op ELSE call.op
    IN  (node.op = "none" /\ op \in PutOps /\ args.overwrite # "true") =>
            /\ \A i \in 1..Len(log) :
                  log[i].method = "PUT" =>
                     \E j \in 1..(i - 1) : /\ log[j].method = "HEAD"
                                           /\ log[j].path = log[i].path
                                           /\ ~Success(log[j].resp)
            /\ (pc = "idle" /\ Len(log) >= 1 /\ Success(log[1].resp)) =>
                  /\ result.kind = "error" /\ result.cls = "WebDAVError"
                  /\ result.hasStatus /\ result.status = 409
                  /\ Methods(log) = <<"HEAD">>

\* C2 witness: a putFileContents without overwrite on an existing path has
\* raised the conflict after its HEAD
C2_Witness ==
    /\ Finished("putFileContents")
    /\ result.args.overwrite = "false"
    /\ Methods(log) = <<"HEAD">> /\ Success(log[1].resp)
    /\ result.kind = "error" /\ result.status = 409

TransferOps == {"moveFile", "copyFile"}

\* C3 as stated: moveFile(src, dst, {overwrite: false}) on a destination that
\* exists raises the 409 conflict and issues no MOVE request.
C3_Original ==
    [][(/\ pc = "transfer" /\ node.op = "none"
        /\ call.op = "moveFile" /\ call.overwrite = "false"
        /\ KindOf(server, DestKey(baseURL, DestinationHeader(baseURL, call.dest))) # "none")
       => (/\ \A i \in 1..Len(log') : log'[i].method # "MOVE"
           /\ result'.kind = "error" /\ result'.hasStatus /\ result'.status = 409)]_vars

\* C3 as amended: moveFile(src, dst, {overwrite: false}) makes no existence
\* check of its own: it issues exactly one MOVE, carrying Overwrite: F, and
\* its outcome is the server's answer to it: success for a 2xx, otherwise an
\* error with the status of the answer (412 when a conforming server finds the
\* destination), never a conflict raised without a request.
C3_MoveLeftToServer ==
    (Finished("moveFile") /\ result.args.overwrite = "false") =>
        /\ Methods(log) = <<"MOVE">>
        /\ log[1].overwrite = "F"
        /\ IF Success(log[1].resp) THEN result.kind = "ok"
           ELSE /\ result.kind = "error" /\ result.cls = "WebDAVError"
                /\ result.hasStatus = (log[1].resp.kind = "http")
                /\ result.status = log[1].resp.status

\* C3 witness: a moveFile without overwrite onto an existing destination has
\* sent its MOVE and raised the server's 412
C3_Witness ==
    /\ Finished("moveFile") /\ result.args.overwrite = "false"
    /\ KindOf(server, DestKey(baseURL, log[1].dest)) # "none"
    /\ log[1].method = "MOVE" /\ log[1].resp = Http(412)
    /\ result.kind = "error" /\ result.status = 412

\* C5 as stated: every MOVE and COPY carries an Overwrite header, T when the
\* overwrite option is true and F otherwise, also when the option is not passed.
C5_Original ==
    (pc = "idle" /\ node.op = "none" /\ result.op \in TransferOps) =>
        \A i \in 1..Len(log) :
            log[i].method \in {"MOVE", "COPY"} =>
                log[i].overwrite = (IF result.args.overwrite = "true" THEN "T" ELSE "F")

\* C5 as amended: a MOVE or COPY carries Overwrite: T when the overwrite option
\* is true and Overwrite: F when it is false; when the caller does not pass the
\* option the request carries no Overwrite header at all.
C5_OverwriteHeader ==
    (pc = "idle" /\ node.op = "none" /\ result.op \in TransferOps) =>
        /\ Methods(log) = <<IF result.op = "moveFile" THEN "MOVE" ELSE "COPY">>
        /\ log[1].overwrite = (CASE result.args.overwrite = "true" -> "T"
                                 [] result.args.overwrite = "false" -> "F"
                                 [] result.args.overwrite = "undefined" -> "none")

\* C5 witness: a copyFile called without the overwrite option has sent a COPY
\* without an Overwrite header
C5_Witness ==
    /\ Finished("copyFile") /\ result.args.overwrite = "undefined"
    /\ log[1].method = "COPY" /\ log[1].overwrite = "none"

\* C10: a successful stat of a path whose content was last set by a successful
\* putFileContents reports as size the byte length of the data of that call.
C10_StatSizeIsWrittenLength ==
    (Finished("stat") /\ result.kind = "ok"
     /\ written[ServerKey(result.args.path)] >= 0) =>
        result.value.v.size = Num(written[ServerKey(result.args.path)])

\* C10 witness: a stat after a successful write of MaxLen bytes reports MaxLen
C10_Witness ==
    /\ Finished("stat") /\ result.kind = "ok"
    /\ written[ServerKey(result.args.path)] = MaxLen
    /\ result.value.v.size = Num(MaxLen)


-----------------------------------------------------------------------------
(* The node: execute() handles one item at a time on the nested path /new/sub/f *)

MaxItems == 2

NewDir == <<Slash, "new">>
NewSub == <<Slash, "new", Slash, "sub">>
NewFile == <<Slash, "new", Slash, "sub", Slash, "f">>

\* The server before the first item: /a is a file, /new and /new/sub are
\* collections or missing, /new/sub/f and /b are files or missing
NodeServers ==
    {[r \in Res |-> CASE r = <<"a">> -> File(1)
                      [] r = <<"b">> -> fb
                      [] r = <<"new">> -> (IF depth >= 1 THEN Dir ELSE None)
                      [] r = <<"new", "sub">> -> (IF depth >= 2 THEN Dir ELSE None)
                      [] r = <<"new", "sub", "f">> -> (IF depth >= 2 THEN ff ELSE None)] :
        depth \in 0..2, fb \in {None, File(1)}, ff \in {None, File(1)}}

InitNode ==
    /\ baseURL = RootURL
    /\ server \in NodeServers
    /\ log = <<>>
    /\ pc = "idle"
    /\ call = NoCall
    /\ node = NoNode
    /\ result = NoResult
    /\ calls = 0
    /\ written = [r \in Res |-> -1]
    /\ mkcols = [r \in Res |-> 0]
    /\ faulted = FALSE
    /\ maxBodyLength = MaxLen
    /\ faults = Faults
    /\ other = NoOther
    /\ execution = NoExecution

\* The parameters of an item, before its operation starts
Item(op, filePath, target, overwrite, parents, len) ==
    [op |-> op, path |-> filePath, overwrite |-> overwrite, len |-> len, label |-> "",
     target |-> target, parents |-> parents, parts |-> <<>>, idx |-> 0, cur |-> <<>>,
     after |-> "", recursive |-> FALSE]

\* execute() takes the next item and runs its operation up to the first
\* request
NextItem(start) ==
    /\ pc = "idle"
    /\ calls < MaxItems
    /\ calls' = calls + 1
    /\ log' = <<>>
    /\ SetControl(start)
    /\ UNCHANGED <<baseURL, maxBodyLength, faults, server, written, mkcols, faulted, other,
                   execution>>

\* FolderOperation.CREATE: exists(filePath) first
folder_create ==
    \E p \in {NewDir, NewSub}, parents \in BOOLEAN :
        LET n == Item("create", p, <<>>, FALSE, parents, 0)
        IN  NextItem(CallClient(ClientCall("exists", p, <<>>, "undefined", 0),
                                At(n, "fc_exists")))

\* FileOperation.UPLOAD: the parent directories first
file_upload ==
    \E p \in {NewFile, <<Slash, "b">>}, overwrite \in BOOLEAN, parents \in BOOLEAN,
       len \in {1, MaxLen} :
        LET n == Item("upload", p, <<>>, overwrite, parents, len)
        IN  NextItem(ParentsOf(n, p, "upload"))

\* FileOperation.MOVE: exists(filePath) first
file_move ==
    \E t \in {NewFile, <<Slash, "b">>}, overwrite \in BOOLEAN, parents \in BOOLEAN :
        LET n == Item("move", <<Slash, "a">>, t, overwrite, parents, 0)
        IN  NextItem(CallClient(ClientCall("exists", n.path, <<>>, "undefined", 0),
                                At(n, "mv_src")))

NextNode ==
    \/ folder_create
    \/ file_upload
    \/ file_move
    \/ exists
    \/ putFile_exists
    \/ putFile_put
    \/ createDirectory
    \/ transferFile
    \/ stat

SpecNode == InitNode /\ [][NextNode]_vars


-----------------------------------------------------------------------------
(* Claims about the parent-directory helper *)

ItemOps == {"create", "upload", "move"}

\* An item is being handled, or has just been handled
InItem == node.op \in ItemOps \/ (pc = "idle" /\ result.op \in ItemOps)

\* The item in hand, with the helper's loop variables as they stand
CurrentItem == IF node.op \in ItemOps THEN node ELSE result.args

\* The requests the helper has made for the item in hand
HelperLog == SelectSeq(log, LAMBDA e : e.by \in {"h_exists", "h_mkdir"})

\* The prefix of k parts of the helper's directory path
LevelPath(parts, k) == JoinSegments([i \in 1..k |-> <<parts[i]>>])

Level(e) == Len(SplitPath(e.path))

\* C7: the helper walks the prefixes of its path from the shallowest to the
\* deepest, one after the other: the first request is the HEAD of the first
\* prefix; a MKCOL is sent only right after the HEAD of the same prefix came
\* back without a 2xx; the HEAD of the next deeper prefix is sent only right
\* after the HEAD of the prefix above it was answered 2xx or its MKCOL
\* succeeded; a failed MKCOL is the last request of the item, which then fails.
C7_HelperOrder ==
    InItem =>
        LET parts == CurrentItem.parts
            h == HelperLog
        IN  /\ \A i \in 1..Len(h) :
                  /\ Level(h[i]) \in 1..Len(parts)
                  /\ h[i].path = LevelPath(parts, Level(h[i]))
                  /\ h[i].method \in {"HEAD", "MKCOL"}
                  /\ h[i].method = "MKCOL" =>
                        /\ i > 1
                        /\ h[i - 1].method = "HEAD"
                        /\ h[i - 1].path = h[i].path
                        /\ ~Success(h[i - 1].resp)
                  /\ h[i].method = "HEAD" =>
                        IF i = 1 THEN Level(h[i]) = 1
                        ELSE /\ Level(h[i]) = Level(h[i - 1]) + 1
                             /\ Success(h[i - 1].resp)
            /\ \A i \in 1..Len(log) :
                  (log[i].by = "h_mkdir" /\ ~Success(log[i].resp)) =>
                      /\ i = Len(log)
                      /\ pc = "idle" /\ result.kind = "error"

\* C7 witness: a folder creation with parent creation has gone through both
\* levels of /new/sub, each with a HEAD answered 404 and a MKCOL that succeeded
C7_Witness ==
    /\ pc = "idle" /\ result.op = "create" /\ result.kind = "ok"
    /\ result.args.parts = <<"new", "sub">>
    /\ Methods(HelperLog) = <<"HEAD", "MKCOL", "HEAD", "MKCOL">>
    /\ HelperLog[1].path = NewDir /\ HelperLog[3].path = NewSub
    /\ HelperLog[1].resp = Http(404) /\ Success(HelperLog[2].resp)
    /\ Success(HelperLog[4].resp)

RECURSIVE Position(_, _, _, _)
Position(l, method, path, i) ==
    IF i > Len(l) THEN 0
    ELSE IF l[i].method = method /\ l[i].path = path /\ Success(l[i].resp) THEN i
    ELSE Position(l, method, path, i + 1)

\* C9: in an upload of /new/sub/f with overwrite false and parent creation,
\* the helper's HEADs of /new and of /new/sub come before any PUT; when both
\* found nothing, the PUT is sent only after MKCOL /new and then MKCOL
\* /new/sub have both succeeded, and these are the only MKCOLs of the item.
C9_ParentsBeforePut ==
    LET n == CurrentItem
    IN  (InItem /\ n.op = "upload" /\ n.path = NewFile /\ ~n.overwrite /\ n.parents) =>
            \A i \in 1..Len(log) :
                log[i].method = "PUT" =>
                    LET before == SubSeq(log, 1, i - 1)
                        heads == SelectSeq(before, LAMBDA e : e.by = "h_exists")
                        made == SelectSeq(before, LAMBDA e : e.method = "MKCOL")
                    IN  /\ log[i].path = NewFile
                        /\ Len(heads) = 2
                        /\ heads[1].path = NewDir /\ heads[2].path = NewSub
                        /\ (~Success(heads[1].resp) /\ ~Success(heads[2].resp)) =>
                              /\ Len(made) = 2
                              /\ made[1].path = NewDir /\ Success(made[1].resp)
                              /\ made[2].path = NewSub /\ Success(made[2].resp)
                              /\ Position(before, "MKCOL", NewDir, 1)
                                   < Position(before, "MKCOL", NewSub, 1)

\* C9 witness: such an upload on a server without /new has finished after
\* MKCOL /new, MKCOL /new/sub and the PUT, in this order
C9_Witness ==
    /\ pc = "idle" /\ result.op = "upload" /\ result.kind = "ok"
    /\ result.args.path = NewFile /\ ~result.args.overwrite /\ result.args.parents
    /\ Methods(log) = <<"HEAD", "MKCOL", "HEAD", "MKCOL", "HEAD", "HEAD", "PUT", "PROPFIND">>
    /\ log[2].path = NewDir /\ log[4].path = NewSub /\ log[7].path = NewFile


-----------------------------------------------------------------------------
(* The Destination header: moveFile and copyFile for the base URLs and the
   destinations a caller may give *)

Bases == {RootURL,
          <<"https://", "host", Slash, "dav", Slash>>,
          <<"https://", "host", Slash, "dav">>,
          <<"https://", "host", Slash, "dav", Slash, "files", Slash>>,
          <<"http://", "other">>}

UrlDestinations ==
    {<<Slash, "b">>, <<"b">>, <<"relative", Slash, "target">>, <<"..", Slash, "b">>,
     <<".", Slash, "b">>, <<Slash, "dav", Slash, "b">>, <<Slash, Slash>>,
     <<"https://", "host", Slash, "b">>, <<"http://", "other", Slash, "dav", Slash, "b">>}

InitUrl ==
    /\ baseURL \in Bases
    /\ \E fb \in {None, File(1)} :
          server = [r \in Res |-> IF r = <<"a">> THEN File(1) ELSE IF r = <<"b">> THEN fb ELSE None]
    /\ log = <<>>
    /\ pc = "idle"
    /\ call = NoCall
    /\ node = NoNode
    /\ result = NoResult
    /\ calls = 0
    /\ written = [r \in Res |-> -1]
    /\ mkcols = [r \in Res |-> 0]
    /\ faulted = FALSE
    /\ maxBodyLength = MaxLen
    /\ faults = Faults
    /\ other = NoOther
    /\ execution = NoExecution

url_moveFile ==
    \E d \in UrlDestinations, ow \in OverwriteOptions :
        Invoke(ClientCall("moveFile", <<Slash, "a">>, d, ow, 0))

url_copyFile ==
    \E d \in UrlDestinations, ow \in OverwriteOptions :
        Invoke(ClientCall("copyFile", <<Slash, "a">>, d, ow, 0))

\* A request on the destination of the transfer that has just succeeded, as
\* the node's move is followed by a stat of the destination
url_exists ==
    /\ result.op \in TransferOps /\ result.kind = "ok"
    /\ StartsWith(result.args.dest, <<Slash>>)
    /\ Invoke(ClientCall("exists", result.args.dest, <<>>, "undefined", 0))

NextUrl ==
    \/ url_moveFile
    \/ url_copyFile
    \/ url_exists
    \/ transferFile
    \/ exists

SpecUrl == InitUrl /\ [][NextUrl]_vars

IsAbsoluteUrl(s) == ParseUrl(s).ok

\* C4: the Destination header of every MOVE and COPY is an absolute http(s)
\* URL: the destination itself when it was given as one, and otherwise a URL
\* with the scheme of the base URL, which is never the string that was given.
C4_DestinationAbsolute ==
    (pc = "idle" /\ node.op = "none" /\ result.op \in TransferOps) =>
        \A i \in 1..Len(log) :
            log[i].method \in {"MOVE", "COPY"} =>
                /\ IsAbsoluteUrl(log[i].dest)
                /\ IF IsAbsoluteUrl(result.args.dest)
                   THEN log[i].dest = result.args.dest
                   ELSE /\ log[i].dest # result.args.dest
                        /\ log[i].dest[1] = baseURL[1]

\* C4 witness: a moveFile to "relative/target" with base URL https://host/dav/
\* has sent the Destination https://host/dav/relative/target
C4_Witness ==
    /\ Finished("moveFile")
    /\ baseURL = <<"https://", "host", Slash, "dav", Slash>>
    /\ result.args.dest = <<"relative", Slash, "target">>
    /\ log[1].method = "MOVE"
    /\ log[1].dest = <<"https://", "host", Slash, "dav", Slash, "relative", Slash, "target">>

\* Destinations that are relative to the base URL: no scheme, no leading
\* separator and no step to the parent
RelativeTargets ==
    {d \in UrlDestinations :
        /\ d[1] \notin Schemes \cup {Slash}
        /\ \A i \in 1..Len(d) : d[i] # ".."}

\* The path segments of a URL, <<>> for a string that is no URL
SegmentsOf(url) == SelectSeq(ParseUrl(url).segs, LAMBDA g : g # <<>>)

\* C21: for every base URL, with or without a trailing separator, the
\* Destination URL a relative target is resolved to keeps every path segment
\* of the base URL, its last one included: the path of the base URL is a
\* prefix of the path of the Destination.
C21_LastSegmentKept ==
    (pc = "idle" /\ node.op = "none" /\ result.op \in TransferOps
     /\ result.args.dest \in RelativeTargets) =>
        \A i \in 1..Len(log) :
            log[i].method \in {"MOVE", "COPY"} =>
                LET segs == SegmentsOf(log[i].dest)
                    root == BasePath(baseURL)
                IN  Len(segs) >= Len(root) /\ SubSeq(segs, 1, Len(root)) = root

\* C21: a client constructed with https://host/dav resolves the target b to
\* https://host/b: the base URL is used as it was given and its last segment
\* is replaced
C21_LastSegmentDropped ==
    /\ Finished("moveFile")
    /\ baseURL = <<"https://", "host", Slash, "dav">>
    /\ result.args.dest = <<"b">>
    /\ log[1].method = "MOVE"
    /\ log[1].dest = <<"https://", "host", Slash, "b">>

\* C21: with a base URL that ends with a separator, as the node passes it, the
\* same target is resolved below the base URL
C21_KeptWithSeparator ==
    /\ Finished("moveFile")
    /\ baseURL = <<"https://", "host", Slash, "dav", Slash>>
    /\ result.args.dest = <<"b">>
    /\ log[1].method = "MOVE"
    /\ log[1].dest = <<"https://", "host", Slash, "dav", Slash, "b">>

\* Destination paths with a leading separator
LeadingTargets ==
    {d \in UrlDestinations : Len(d) >= 2 /\ d[1] = Slash /\ d[2] # Slash}

\* C22: with a base URL that has a path, the Destination URL that moveFile and
\* copyFile send for a destination path with a leading separator is the URL a
\* request on that path is sent to; and exists(dst) after a successful
\* moveFile(src, dst), when the server answers it, finds the moved resource.
C22_DestinationIsRequestUrl ==
    /\ (pc = "idle" /\ node.op = "none" /\ result.op \in TransferOps
        /\ BasePath(baseURL) # <<>> /\ result.args.dest \in LeadingTargets) =>
           \A i \in 1..Len(log) :
               log[i].method \in {"MOVE", "COPY"} =>
                   ParseUrl(log[i].dest) = ParseUrl(RequestUrl(baseURL, result.args.dest))
    /\ (Finished("exists") /\ BasePath(baseURL) # <<>> /\ server[<<"a">>] = None
        /\ result.args.path \in LeadingTargets /\ log[1].resp \notin faults) =>
           result.value = Bool(TRUE)

\* C22: with the base URL https://host/dav/ the destination /b is sent as
\* https://host/b, while a request on /b goes to https://host/dav/b
C22_DestinationOutsideBase ==
    /\ Finished("moveFile")
    /\ baseURL = <<"https://", "host", Slash, "dav", Slash>>
    /\ result.args.dest = <<Slash, "b">>
    /\ log[1].method = "MOVE"
    /\ log[1].dest = <<"https://", "host", Slash, "b">>
    /\ RequestUrl(baseURL, result.args.dest) = <<"https://", "host", Slash, "dav", Slash, "b">>

\* C22: after moveFile('/a', '/dav/b') has succeeded on that base URL, the
\* file is at /b of the collection and exists('/dav/b') answers false
C22_MovedResourceNotFound ==
    /\ Finished("exists")
    /\ baseURL = <<"https://", "host", Slash, "dav", Slash>>
    /\ result.args.path = <<Slash, "dav", Slash, "b">>
    /\ server[<<"a">>] = None /\ server[<<"b">>] = File(1)
    /\ log[1].resp = Http(404)
    /\ result.value = Bool(FALSE)

-----------------------------------------------------------------------------
(* Directory listings: getDirectoryContents and the node's folder listing on a
   server that holds /new/sub/f *)

ListPaths == {NewDir, NewDir \o <<Slash>>, <<"new">>, NewSub, <<Slash>>}

InitList ==
    /\ baseURL \in Bases
    /\ \E fb \in {None, File(1)} :
          server = [r \in Res |-> CASE r = <<"a">> -> File(1)
                                    [] r = <<"b">> -> fb
                                    [] r = <<"new">> -> Dir
                                    [] r = <<"new", "sub">> -> Dir
                                    [] r = <<"new", "sub", "f">> -> File(MaxLen)]
    /\ log = <<>>
    /\ pc = "idle"
    /\ call = NoCall
    /\ node = NoNode
    /\ result = NoResult
    /\ calls = 0
    /\ written = [r \in Res |-> -1]
    /\ mkcols = [r \in Res |-> 0]
    /\ faulted = FALSE
    /\ maxBodyLength = MaxLen
    /\ faults = Faults
    /\ other = NoOther
    /\ execution = NoExecution

call_getDirectoryContents ==
    \E p \in ListPaths, deep \in OverwriteOptions : Invoke(ListCall(p, deep))

\* FolderOperation.LIST: exists(filePath) first; the node's client has a
\* base URL that ends with a separator
folder_list ==
    \E p \in ListPaths, recursive \in BOOLEAN :
        LET n == [Item("list", p, <<>>, FALSE, FALSE, 0) EXCEPT !.recursive = recursive]
        IN  EndsWithSlash(baseURL) /\ NextItem(CallClient(ClientCall("exists", p, <<>>, "undefined", 0),
                                At(n, "ls_exists")))

NextList ==
    \/ call_getDirectoryContents
    \/ folder_list
    \/ exists
    \/ getDirectoryContents

SpecList == InitList /\ [][NextList]_vars

\* C6: a listing that returned holds no entry for the listed directory itself,
\* whatever form the server gives the href of the directory's own record.
C6_NoSelfEntry ==
    (pc = "idle" /\ result.op \in {"getDirectoryContents", "list"} /\ result.kind = "ok") =>
        \A i \in 1..Len(result.value.v) :
            ResourceOf(baseURL, result.value.v[i].filename) # ServerKey(result.args.path)


\* C6, the case at hand: with base URL https://host/dav/ the listing of /new
\* has returned the record of /new itself, which the server reports under the
\* href /dav/new/
C6_SelfEntryListed ==
    /\ Finished("getDirectoryContents") /\ result.kind = "ok"
    /\ baseURL = <<"https://", "host", Slash, "dav", Slash>>
    /\ result.args.path = NewDir
    /\ Len(result.value.v) >= 1
    /\ result.value.v[1].filename = <<Slash, "dav", Slash, "new", Slash>>
    /\ result.value.v[1].type = "directory"

-----------------------------------------------------------------------------
(* Every operation of the client against a server that may fail any request
   with any status and whose 207 carries any document of a bounded universe:
   stat and getDirectoryContents on /new, the other operations on /a *)

\* The spellings of the DAV: namespace prefix
Prefixes == {"d:", "D:", ""}

\* An element of a parsed document; no element when it has no value
Element(key, value) == IF value.t = "undefined" THEN <<>> ELSE (key :> value)

\* The parsed <prop>: resourcetype and getcontentlength, each under its own
\* spelling (pt, pl), the collection marker under pc
PropOf(pt, pc_, pl, kind, length) ==
    Obj(Element(pt \o "resourcetype",
                IF kind = "dir" THEN Obj((pc_ \o "collection") :> Str(<<>>)) ELSE Str(<<>>))
        @@ Element(pl \o "getcontentlength", length))

\* The parsed <propstat> block and <response> record
BlockOf(p, status, prop) == Obj(Element(p \o "status", status) @@ Element(p \o "prop", prop))
RecordOf(p, href, propstat) ==
    Obj(Element(p \o "href", href) @@ Element(p \o "propstat", propstat))

\* The parsed document: a single <response> is not an array
DocumentOf(p, records) ==
    Obj((p \o "multistatus") :>
          Obj((p \o "response") :> (IF Len(records) = 1 THEN records[1] ELSE Arr(records))))

\* Status lines of propstat blocks
StatusOK == Str(<<"HTTP/1.1", "200", "OK">>)
StatusNoContent == Str(<<"HTTP/1.1", "204", "No Content">>)
StatusNotFound == Str(<<"HTTP/1.1", "404", "Not Found">>)

\* Texts of getcontentlength: no element, an empty element, a decimal, a
\* negative number, and text that is no number
ContentLengths ==
    {Undefined, XmlText(<<>>), XmlText(<<"1", "2">>), XmlText(<<"-", "5">>),
     XmlText(<<"a", "b", "c">>)}

\* What a record describes: a collection, or a file with a length text
Contents == {[kind |-> "dir", length |-> Undefined]}
            \cup {[kind |-> "file", length |-> l] : l \in ContentLengths}

ParsePath == <<Slash, "new">>
HrefX == Str(<<Slash, "new", Slash, "x">>)
HrefY == Str(<<Slash, "new", Slash, "y">>)
HrefSelf == Str(<<Slash, "new", Slash>>)
HrefMalformed == Str(<<Slash, "new", Slash, "%">>)

\* The parsed <prop> with the remaining properties added under spelling po
FullPropOf(pt, pc_, pl, po, kind, length) ==
    Obj(PropOf(pt, pc_, pl, kind, length).v
        @@ ((po \o "getlastmodified") :> Str(<<"Mon,", "02", "Nov">>))
        @@ ((po \o "getcontenttype") :> Str(<<"text/plain">>))
        @@ ((po \o "getetag") :> Str(<<"etag">>))
        @@ ((po \o "displayname") :> Str(<<"x">>)))

\* One record, every element under a spelling of its own
SpelledRecord(pr, pf, pt, pc_, pl, po, c) ==
    RecordOf(pr, HrefX, BlockOf(pf, StatusOK, FullPropOf(pt, pc_, pl, po, c.kind, c.length)))

\* The same spelling for every element
UniformRecord(p, c) == SpelledRecord(p, p, p, p, p, p, c)

\* Documents of one record in every mix of spellings (the document spelled as
\* the propstat block is)
SpelledDocuments ==
    {DocumentOf(pf, <<SpelledRecord(pr, pf, pt, pc_, pl, po, c)>>) :
        pr \in Prefixes, pf \in Prefixes, pt \in Prefixes,
        pc_ \in Prefixes, pl \in Prefixes, po \in Prefixes,
        c \in {x \in Contents : x.length \in {Undefined, XmlText(<<"1", "2">>)}}}

\* Documents of one record with every length text
LengthDocuments == {DocumentOf("d:", <<UniformRecord("d:", c)>>) : c \in Contents}

\* Documents of three records that differ in spelling only
TripleDocuments ==
    {DocumentOf("d:", <<UniformRecord("d:", c), UniformRecord("D:", c), UniformRecord("", c)>>) :
        c \in Contents}
    \cup {DocumentOf("D:", <<SpelledRecord("", "d:", "D:", "", "d:", "D:", c),
                             SpelledRecord("D:", "", "d:", "D:", "", "d:", c),
                             SpelledRecord("d:", "D:", "", "d:", "D:", "", c)>>) : c \in Contents}

\* Records with two propstat blocks, the length telling the blocks apart
BlockStatuses == {Undefined, StatusOK, StatusNoContent, StatusNotFound}
TwoBlockDocuments ==
    {DocumentOf("d:", <<RecordOf("d:", HrefX,
         Arr(<<BlockOf("d:", s1, PropOf("d:", "d:", "d:", "file", XmlText(<<"1">>))),
               BlockOf("d:", s2, PropOf("d:", "d:", "d:", "file", XmlText(<<"2">>)))>>))>>) :
        s1 \in BlockStatuses, s2 \in BlockStatuses}

\* Records that lack a part: no propstat, no prop, a prop without content, no
\* href, an href whose percent-encoding is malformed
IncompleteRecords ==
    {RecordOf("d:", HrefX, Undefined),
     RecordOf("d:", HrefX, BlockOf("d:", StatusOK, Undefined)),
     RecordOf("d:", HrefX, BlockOf("d:", StatusOK, Str(<<>>))),
     RecordOf("d:", Undefined, BlockOf("d:", StatusOK, PropOf("d:", "d:", "d:", "file", Undefined))),
     RecordOf("d:", HrefMalformed,
              BlockOf("d:", StatusOK, PropOf("d:", "d:", "d:", "file", XmlText(<<"1">>))))}

CompleteRecord(href) ==
    RecordOf("d:", href, BlockOf("d:", StatusOK, PropOf("d:", "d:", "d:", "file", XmlText(<<"1">>))))

\* An incomplete record alone, and after the collection's own and a complete one
IncompleteDocuments ==
    {DocumentOf("d:", <<r>>) : r \in IncompleteRecords}
    \cup {DocumentOf("d:", <<CompleteRecord(HrefSelf), CompleteRecord(HrefY), r>>) :
            r \in IncompleteRecords}

\* Documents without any <response>: a multistatus that holds only its
\* namespace attribute, an empty multistatus, and a document of another kind
EmptyDocuments ==
    {Obj((p \o "multistatus") :> Obj("@_xmlns:d" :> Str(<<"DAV:">>))) : p \in Prefixes}
    \cup {Obj("d:multistatus" :> Str(<<>>)), Obj("html" :> Str(<<"error">>))}

Documents ==
    SpelledDocuments \cup LengthDocuments \cup TripleDocuments \cup TwoBlockDocuments
    \cup IncompleteDocuments \cup EmptyDocuments

\* The statuses handleError tells apart, and three it does not
ClassifiedStatuses == {401, 403, 404, 405, 409, 412, 423, 507}
ErrorStatuses == ClassifiedStatuses \cup {400, 500, 503}

\* The failures of this server: no response, or any of the error statuses
StatusFaults == {NetworkFailure, TlsFailure} \cup {Http(s) : s \in ErrorStatuses}

\* The operations of the client
FacadeOps ==
    {"exists", "stat", "getFileContents", "getFileStream", "putFileContents", "putFileStream",
     "createDirectory", "deleteFile", "moveFile", "copyFile", "getDirectoryContents"}

InitFacade ==
    /\ baseURL = RootURL
    /\ \E fa \in {None, File(1)} :
          server = [r \in Res |-> CASE r = <<"a">> -> fa
                                    [] r = <<"b">> -> None
                                    [] r = <<"new">> -> Dir
                                    [] r = <<"new", "sub">> -> Dir
                                    [] r = <<"new", "sub", "f">> -> File(MaxLen)]
    /\ log = <<>>
    /\ pc = "idle"
    /\ call = NoCall
    /\ node = NoNode
    /\ result = NoResult
    /\ calls = 0
    /\ written = [r \in Res |-> -1]
    /\ mkcols = [r \in Res |-> 0]
    /\ faulted = FALSE
    /\ maxBodyLength = MaxLen
    /\ faults = StatusFaults
    /\ other = NoOther
    /\ execution = NoExecution

\* The caller invokes any operation: stat and getDirectoryContents on /new,
\* the others on /a (towards /b for a move or copy)
facade_call ==
    \E op \in FacadeOps, ow \in OverwriteOptions :
        Invoke(CASE op = "getDirectoryContents" -> ListCall(ParsePath, ow)
                 [] op = "stat" -> ClientCall(op, ParsePath, <<>>, "undefined", 0)
                 [] op \in {"moveFile", "copyFile"} ->
                       ClientCall(op, <<Slash, "a">>, <<Slash, "b">>, ow, 0)
                 [] op \in {"putFileContents", "putFileStream"} ->
                       ClientCall(op, <<Slash, "a">>, <<>>, ow, 1)
                 [] OTHER -> ClientCall(op, <<Slash, "a">>, <<>>, "undefined", 0))

\* stat and getDirectoryContents, the 207 carrying any of the documents
stat_document == statAnswered(PropfindAnswers(server, ServerKey(call.path), Documents))

getDirectoryContents_document ==
    getDirectoryContentsAnswered(PropfindAnswers(server, ServerKey(call.path), Documents))

NextFacade ==
    \/ facade_call
    \/ exists
    \/ putFile_exists
    \/ putFile_put
    \/ createDirectory
    \/ getFile
    \/ deleteFile
    \/ transferFile
    \/ stat_document
    \/ getDirectoryContents_document

SpecFacade == InitFacade /\ [][NextFacade]_vars

-----------------------------------------------------------------------------
(* Claims about multistatus answers *)

\* The element of obj named `name` under any spelling of the prefix
Named(obj, name) ==
    IF obj.t # "obj" THEN Undefined
    ELSE LET keys == {k \in DOMAIN obj.v : k \in {"d:" \o name, "D:" \o name, name}}
         IN  IF keys = {} THEN Undefined ELSE obj.v[CHOOSE k \in keys : TRUE]

\* The <response> records a parsed document holds
RecordsOf(document) ==
    LET responses == Named(Named(document, "multistatus"), "response")
    IN  CASE responses.t = "undefined" -> <<>>
          [] responses.t = "arr" -> responses.v
          [] OTHER -> <<responses>>

\* C11: stat(path) issues a single PROPFIND with Depth 0 on the path; when it
\* returns, the value is the FileInfo of the first record of the multistatus
\* answer; when the answer holds no response record, stat raises a parse
\* error, a WebDAVError without a status code, and returns no FileInfo.
C11_StatFirstRecord ==
    Finished("stat") =>
        /\ Methods(log) = <<"PROPFIND">>
        /\ log[1].depth = "0"
        /\ log[1].path = result.args.path
        /\ Success(log[1].resp) =>
              LET records == RecordsOf(log[1].data)
              IN  /\ (records = <<>>) =>
                        /\ result.kind = "error" /\ result.cls = "WebDAVError"
                        /\ ~result.hasStatus
                  /\ (result.kind = "ok") =>
                        /\ records # <<>>
                        /\ result.value =
                              Info(webdavResponseToFileInfo(normalizeWebDAVResponse(records[1])))

\* C11 witness: a stat whose 207 held a multistatus without any response has
\* raised the parse error
C11_Witness ==
    /\ Finished("stat")
    /\ log[1].resp = Http(207)
    /\ "d:multistatus" \in DOMAIN log[1].data.v
    /\ RecordsOf(log[1].data) = <<>>
    /\ result.kind = "error" /\ result.cls = "WebDAVError" /\ ~result.hasStatus

\* C11 second witness: a stat whose 207 held three records has returned the
\* FileInfo of the first
C11_WitnessFirstOfThree ==
    /\ Finished("stat")
    /\ log[1].resp = Http(207)
    /\ Len(RecordsOf(log[1].data)) = 3
    /\ result.kind = "ok"
    /\ result.value.v.filename = HrefSelf.v

-----------------------------------------------------------------------------
(* Claims about failures and outcomes *)

\* A direct invocation of an operation other than exists has just finished,
\* and the last request it sent failed
FailedRequest ==
    /\ pc = "idle" /\ node.op = "none"
    /\ result.op \in FacadeOps \ {"exists"}
    /\ Len(log) > 0
    /\ ~Success(log[Len(log)].resp)

\* C12: the error an operation raises for a failed request is classified by
\* the status of the answer: 401, 403, 404, 405, 409, 412, 423 and 507 each
\* have a category of their own, every other status gives the generic error,
\* and in both cases the error's statusCode is the status the server sent; a
\* failure without a response gives an error without a status code.
C12_ClassifiedByStatus ==
    FailedRequest =>
        LET resp == log[Len(log)].resp
        IN  /\ result.kind = "error" /\ result.cls = "WebDAVError"
            /\ result.hasStatus = (resp.kind = "http")
            /\ result.hasStatus => result.status = resp.status
            /\ IF resp.kind = "http" /\ resp.status \in ClassifiedStatuses
               THEN /\ result.message \notin {"", "axios"}
                    /\ \A s \in ErrorStatuses \ {resp.status} :
                          errorMessage(Http(s)) # result.message
               ELSE result.message = "axios"

\* C12 witness: a deleteFile answered with 423 has raised the error of the
\* locked category with status 423
C12_Witness ==
    /\ Finished("deleteFile")
    /\ log[1].resp = Http(423)
    /\ result.kind = "error" /\ result.hasStatus /\ result.status = 423
    /\ result.message = "locked"


\* C13: every operation of the client (stat, getFileContents, getFileStream,
\* putFileContents, putFileStream, createDirectory, deleteFile, moveFile,
\* copyFile, getDirectoryContents) ends either with a returned value or with
\* one raised WebDAVError, never with an error of another type; and
\* getDirectoryContents returns a list only when every record of the answer
\* was parsed and mapped: the list then holds one entry for each record whose
\* href is not the listed directory's, and otherwise the operation fails as a
\* whole.
C13_SuccessOrOneWebDAVError ==
    (pc = "idle" /\ node.op = "none" /\ result.op \in FacadeOps) =>
        /\ result.kind \in {"ok", "error"}
        /\ result.kind = "error" => (result.cls = "WebDAVError" /\ result.value = Undefined)
        /\ (result.op = "getDirectoryContents" /\ Success(log[1].resp)) =>
              LET records == RecordsOf(log[1].data)
                  normal == [i \in 1..Len(records) |-> normalizeWebDAVResponse(records[i])]
              IN  IF records = <<>> \/ \E i \in 1..Len(records) : normal[i].t = "throw"
                  THEN result.kind = "error"
                  ELSE /\ result.kind = "ok"
                       /\ Len(result.value.v) =
                             Cardinality({i \in 1..Len(records) :
                                             ~IsListedDirectory(normal[i].href, result.args.path)})

\* C13 witness: a getDirectoryContents whose answer held the directory's own
\* record, a well-formed record and a record without propstat has raised a
\* WebDAVError and returned nothing
C13_Witness ==
    /\ Finished("getDirectoryContents")
    /\ log[1].resp = Http(207)
    /\ Len(RecordsOf(log[1].data)) = 3
    /\ normalizeWebDAVResponse(RecordsOf(log[1].data)[2]).t # "throw"
    /\ Named(RecordsOf(log[1].data)[3], "propstat") = Undefined
    /\ result.kind = "error" /\ result.cls = "WebDAVError"
    /\ result.value = Undefined

\* C14: no request is retried. Within one invocation of an operation no
\* request is sent twice, and a request that failed is the last one of the
\* operation that sent it: the operation raises without sending anything
\* more. The HEAD of an upload without overwrite belongs to the exists the
\* upload calls: when it fails exists returns false, and the upload goes on
\* to its PUT.
C14_NoRetry ==
    (node.op = "none") =>
        /\ \A i, j \in 1..Len(log) :
              (i # j) => <<log[i].method, log[i].path>> # <<log[j].method, log[j].path>>
        /\ \A i \in 1..Len(log) :
              ~Success(log[i].resp) =>
                 \/ /\ i = Len(log)
                    /\ pc = "idle"
                    /\ IF result.op = "exists"
                       THEN result.kind = "ok" /\ result.value = Bool(FALSE)
                       ELSE result.kind = "error"
                 \/ /\ log[i].method = "HEAD"
                    /\ (IF pc = "idle" THEN result.op ELSE call.op) \in PutOps
                    /\ Len(log) <= i + 1
                    /\ (Len(log) = i + 1) => log[i + 1].method = "PUT"

\* C14 witness: a putFileStream whose HEAD and PUT both failed has sent the
\* two requests once each and raised
C14_Witness ==
    /\ Finished("putFileStream")
    /\ Methods(log) = <<"HEAD", "PUT">>
    /\ log[1].resp = NetworkFailure /\ log[2].resp = Http(500)
    /\ result.kind = "error" /\ result.status = 500

\* The names of the DAV: elements the client reads
ElementNames ==
    {"multistatus", "response", "href", "propstat", "status", "prop", "resourcetype",
     "collection", "getcontentlength", "getlastmodified", "getcontenttype", "getetag",
     "displayname"}

\* The keys under which the elements may come, each with the key the element
\* has under the prefix d:
SpelledKeys == {p \o n : p \in Prefixes, n \in ElementNames}
LowerKeys ==
    [key \in SpelledKeys |->
        "d:" \o (CHOOSE n \in ElementNames : key \in {"d:" \o n, "D:" \o n, n})]

\* The key an element would have with the prefix d:
LowerKey(key) == IF key \in SpelledKeys THEN LowerKeys[key] ELSE key

\* The document, record or element x with every element respelled with d:
RECURSIVE Respelled(_)
Respelled(x) ==
    CASE x.t = "obj" ->
            Obj([key \in {LowerKey(k) : k \in DOMAIN x.v} |->
                    Respelled(x.v[CHOOSE k \in DOMAIN x.v : LowerKey(k) = key])])
      [] x.t = "arr" -> Arr([i \in 1..Len(x.v) |-> Respelled(x.v[i])])
      [] OTHER -> x

\* A direct stat or getDirectoryContents has finished after a 207
Parsed ==
    /\ pc = "idle" /\ node.op = "none"
    /\ result.op \in {"stat", "getDirectoryContents"}
    /\ Success(log[1].resp)

\* C15: parsing does not depend on how the DAV: prefix is spelled. The outcome
\* of stat and of getDirectoryContents for an answer is the outcome for the
\* same answer with every element spelled d:, and in a returned listing two
\* records that differ only in the spelling of their elements (d:, D:, no
\* prefix, mixed from element to element, also for the collection marker) give
\* identical FileInfo records.
C15_PrefixIndependent ==
    Parsed =>
        LET records == RecordsOf(log[1].data)
            respelled == IF result.op = "stat" THEN statOutcome(Respelled(log[1].data))
                         ELSE listOutcome(Respelled(log[1].data), result.args.path)
        IN  /\ result.kind = respelled.kind
            /\ result.value = respelled.value
            /\ (result.kind = "ok" /\ result.op = "getDirectoryContents"
                /\ Len(result.value.v) = Len(records)) =>
                  \A i, j \in 1..Len(records) :
                      (Respelled(records[i]) = Respelled(records[j])) =>
                          result.value.v[i] = result.value.v[j]

\* C15 witness: a listing of three records of one collection, the first
\* spelled d:, the second D:, the third without prefix, has returned three
\* identical directory entries
C15_Witness ==
    /\ Finished("getDirectoryContents") /\ result.kind = "ok"
    /\ Len(RecordsOf(log[1].data)) = 3
    /\ "d:href" \in DOMAIN RecordsOf(log[1].data)[1].v
    /\ "D:href" \in DOMAIN RecordsOf(log[1].data)[2].v
    /\ "href" \in DOMAIN RecordsOf(log[1].data)[3].v
    /\ Len(result.value.v) = 3
    /\ result.value.v[1].type = "directory"
    /\ result.value.v[1] = result.value.v[2] /\ result.value.v[2] = result.value.v[3]

\* C15 second witness: a stat of a record whose elements are spelled
\* differently from one another has returned the file with its size
C15_WitnessMixed ==
    /\ Finished("stat") /\ result.kind = "ok"
    /\ "D:multistatus" \in DOMAIN log[1].data.v
    /\ "href" \in DOMAIN RecordsOf(log[1].data)[1].v
    /\ "D:prop" \in DOMAIN Named(RecordsOf(log[1].data)[1], "propstat").v
    /\ LET prop == Named(Named(RecordsOf(log[1].data)[1], "propstat"), "prop")
       IN  "d:getcontentlength" \in DOMAIN prop.v /\ "getetag" \in DOMAIN prop.v
    /\ result.value.v.size = Num(12)
    /\ result.value.v.etag = Str(<<"etag">>)

-----------------------------------------------------------------------------
(* Two operations in flight on one client: every await of one operation may
   let the other one run *)

\* The operation in hand, as it is kept while the other one runs
Suspended == [pc |-> pc, call |-> call, node |-> node, result |-> result, log |-> log]

\* At an await the event loop goes on with the other operation, or lets the
\* caller start one
interleave ==
    /\ other # Suspended
    /\ pc' = other.pc /\ call' = other.call /\ node' = other.node
    /\ result' = other.result /\ log' = other.log
    /\ other' = Suspended
    /\ UNCHANGED <<baseURL, maxBodyLength, faults, server, calls, written, mkcols, faulted,
                   execution>>

InitPair ==
    /\ baseURL = RootURL
    /\ \E fa \in {None, File(1)} :
          server = [r \in Res |-> IF r = <<"a">> THEN fa ELSE None]
    /\ log = <<>>
    /\ pc = "idle"
    /\ call = NoCall
    /\ node = NoNode
    /\ result = NoResult
    /\ calls = 0
    /\ written = [r \in Res |-> -1]
    /\ mkcols = [r \in Res |-> 0]
    /\ faulted = FALSE
    /\ maxBodyLength = MaxLen
    /\ faults = Faults
    /\ other = NoOther
    /\ execution = NoExecution

PairOps == {"exists", "stat", "getFileContents", "putFileContents", "createDirectory",
            "deleteFile", "moveFile"}

\* The caller invokes an operation on /a (a move goes to the relative path b,
\* an upload carries one byte or two)
pair_call ==
    \E op \in PairOps, n \in {1, 2} :
        /\ op # "putFileContents" => n = 1
        /\ Invoke(ClientCall(op, <<Slash, "a">>, IF op = "moveFile" THEN <<"b">> ELSE <<>>,
                             IF op \in {"putFileContents", "moveFile"} THEN "false"
                             ELSE "undefined",
                             IF op = "putFileContents" THEN n ELSE 0))

NextPair ==
    \/ pair_call
    \/ interleave
    \/ exists
    \/ putFile_exists
    \/ putFile_put
    \/ createDirectory
    \/ getFile
    \/ deleteFile
    \/ transferFile
    \/ stat

SpecPair == InitPair /\ [][NextPair]_vars

\* What an operation sent, and what it was answered
Sent(l) == [i \in 1..Len(l) |->
                <<l[i].method, l[i].path, l[i].dest, l[i].overwrite, l[i].depth, l[i].len>>]
Answered(l) == [i \in 1..Len(l) |-> <<l[i].resp, l[i].data>>]

\* Both operations on the client have finished
BothFinished ==
    /\ pc = "idle" /\ other.pc = "idle"
    /\ result.op \in FacadeOps /\ other.result.op \in FacadeOps

\* C16: no operation changes the configuration of the client (base URL, size
\* limit), and what an operation sends and returns depends only on its
\* arguments and on the answers it gets, however it is interleaved with
\* another operation on the same client: two invocations of one operation
\* with the same arguments that got the same answers sent the same requests
\* and ended with the same outcome.
C16_NoSharedState ==
    /\ [][baseURL' = baseURL /\ maxBodyLength' = maxBodyLength]_vars
    /\ []((/\ BothFinished
           /\ result.op = other.result.op /\ result.args = other.result.args
           /\ Answered(log) = Answered(other.log))
          => (Sent(log) = Sent(other.log) /\ result = other.result))

\* C16 witness: an upload found /a missing, the other operation then created
\* the directory /a, and the upload's PUT was refused: the two operations ran
\* interleaved and both have finished
C16_Witness ==
    /\ BothFinished
    /\ result.op = "putFileContents" /\ other.result.op = "createDirectory"
    /\ Methods(log) = <<"HEAD", "PUT">>
    /\ log[1].resp = Http(404) /\ log[2].resp = Http(405)
    /\ other.log[1].resp = Http(201)
    /\ result.kind = "error" /\ result.status = 405

\* Both operations are uploads with overwrite false, the only two calls made,
\* and the server has answered every request of theirs
TwoGuardedUploads ==
    /\ BothFinished /\ calls = 2 /\ ~faulted
    /\ result.op = "putFileContents" /\ other.result.op = "putFileContents"
    /\ result.args.overwrite = "false" /\ other.result.args.overwrite = "false"

HasPut(l) == \E i \in 1..Len(l) : l[i].method = "PUT"

\* C23: under every interleaving, an upload with overwrite false whose HEAD
\* the server answered never has its PUT accepted while a file exists at the
\* path; and of two such uploads of one path at most one transmits its PUT,
\* the other one raising the 409 conflict.
C23_NoReplacementInRace ==
    /\ [][(/\ pc = "put" /\ call.op = "putFileContents" /\ call.overwrite = "false"
           /\ log[1].resp \notin faults
           /\ Len(log') = Len(log) + 1 /\ Success(log'[Len(log')].resp))
          => KindOf(server, ServerKey(call.path)) = "none"]_vars
    /\ [](TwoGuardedUploads =>
            /\ ~(HasPut(log) /\ HasPut(other.log))
            /\ (HasPut(log) => other.result.kind = "error" /\ other.result.status = 409)
            /\ (HasPut(other.log) => result.kind = "error" /\ result.status = 409))

\* C23: two uploads with overwrite false of the missing /a, one byte and two:
\* both HEADs were answered 404 before either PUT, both PUTs were transmitted
\* and accepted, the later one (204) replacing the file the earlier one had
\* created (201); neither call raised a conflict
C23_BothPutsAccepted ==
    /\ TwoGuardedUploads
    /\ result.kind = "ok" /\ other.result.kind = "ok"
    /\ result.args.len = 2 /\ other.result.args.len = 1
    /\ Methods(log) = <<"HEAD", "PUT">> /\ Methods(other.log) = <<"HEAD", "PUT">>
    /\ log[1].resp = Http(404) /\ other.log[1].resp = Http(404)
    /\ log[2].resp = Http(204) /\ other.log[2].resp = Http(201)
    /\ server[<<"a">>] = File(2)

C24_StreamPutAfterNetworkFailure ==
    /\ Finished("putFileStream")
    /\ result.args.overwrite = "false"
    /\ Methods(log) = <<"HEAD", "PUT">>
    /\ log[1].resp = NetworkFailure /\ log[2].resp = Http(201)

\* The propstat blocks of the record a stat was answered with, when there are
\* several
Blocks == LET propstat == Named(RecordsOf(log[1].data)[1], "propstat")
          IN  IF propstat.t = "arr" THEN propstat.v ELSE <<>>

\* A stat has returned for a record with several propstat blocks
SeveralBlocks ==
    /\ Finished("stat") /\ Success(log[1].resp) /\ result.kind = "ok"
    /\ Len(RecordsOf(log[1].data)) = 1
    /\ Len(Blocks) > 1

\* The status code of a status line is its second word
SuccessCodes == {"200", "201", "202", "204", "207"}
Is2xx(status) == status.t = "str" /\ Len(status.v) >= 2 /\ status.v[2] \in SuccessCodes
Has200(status) == status.t = "str" /\ \E w \in 1..Len(status.v) : status.v[w] = "200"

\* The first block that satisfies Test, the first block when none does
FirstOr1(Test(_)) ==
    LET hits == {i \in 1..Len(Blocks) : Test(Named(Blocks[i], "status"))}
    IN  IF hits = {} THEN 1 ELSE CHOOSE i \in hits : \A j \in hits : i <= j

\* The size the properties of block i give
SizeOf(i) == parseInt(Or(Named(Named(Blocks[i], "prop"), "getcontentlength"), Str(<<"0">>)))

\* C17 as stated: with several propstat blocks the properties are taken from
\* the first block whose status is a 2xx status, and from the first block
\* when no block has one.
C17_Original == SeveralBlocks => result.value.v.size = SizeOf(FirstOr1(Is2xx))

\* C17 as amended: with several propstat blocks the properties are taken from
\* the first block whose status text contains 200, and from the first block
\* when no block has such a status; a block with another 2xx status, such as
\* 204, is not preferred to the blocks before it.
C17_FirstBlockWith200 == SeveralBlocks => result.value.v.size = SizeOf(FirstOr1(Has200))

\* C17 witness: of a 404 block followed by a 200 block the second was used
C17_Witness ==
    /\ SeveralBlocks
    /\ Named(Blocks[1], "status") = StatusNotFound
    /\ Named(Blocks[2], "status") = StatusOK
    /\ result.value.v.size = Num(2)

\* The getcontentlength element of the single record a stat was answered with
LengthElement ==
    Named(Named(Named(RecordsOf(log[1].data)[1], "propstat"), "prop"), "getcontentlength")

\* A stat has returned for a single record with one propstat block
OneBlock ==
    /\ Finished("stat") /\ Success(log[1].resp) /\ result.kind = "ok"
    /\ Len(RecordsOf(log[1].data)) = 1
    /\ Named(RecordsOf(log[1].data)[1], "propstat").t = "obj"

\* The element holds a decimal number that is not negative
IsLength(x) == x.t = "num" /\ x.v >= 0

\* C18: whatever the content-length property of a record holds (nothing, a
\* non-negative decimal, a negative number, text that is no number), the size
\* of the FileInfo is a non-negative integer, and it is 0 when the property is
\* absent or cannot be parsed.
C18_SizeNonNegative ==
    OneBlock =>
        /\ result.value.v.size.t = "num"
        /\ result.value.v.size.v >= 0
        /\ ~IsLength(LengthElement) => result.value.v.size = Num(0)

\* C18: a stat of a record whose getcontentlength is the text abc has returned
\* a FileInfo whose size is NaN
C18_SizeIsNaN ==
    /\ OneBlock
    /\ LengthElement = Str(<<"a", "b", "c">>)
    /\ result.value.v.size = NaN

\* C18: a stat of a record whose getcontentlength is -5 has returned a
\* FileInfo whose size is -5
C18_SizeIsNegative ==
    /\ OneBlock
    /\ LengthElement = Num(0 - 5)
    /\ result.value.v.size = Num(0 - 5)

\* C19: mapping a record to a FileInfo never raises. Whatever a record of the
\* answer lacks or holds malformed (no propstat block, no prop, a length that
\* cannot be parsed, an href whose percent-encoding is invalid), stat and
\* getDirectoryContents return.
C19_MappingNeverRaises ==
    (Parsed /\ RecordsOf(log[1].data) # <<>>) => result.kind = "ok"

\* C19: a stat answered with a single record that has an href but no propstat
\* block has raised a WebDAVError without status
C19_MissingPropstatRaises ==
    /\ Finished("stat") /\ log[1].resp = Http(207)
    /\ Len(RecordsOf(log[1].data)) = 1
    /\ Named(RecordsOf(log[1].data)[1], "href") = HrefX
    /\ Named(RecordsOf(log[1].data)[1], "propstat") = Undefined
    /\ result.kind = "error" /\ result.cls = "WebDAVError" /\ ~result.hasStatus

\* C19: a getDirectoryContents whose third record has an href with a stray
\* percent sign has raised, the two well-formed records before it
\* notwithstanding
C19_MalformedHrefRaises ==
    /\ Finished("getDirectoryContents") /\ log[1].resp = Http(207)
    /\ Len(RecordsOf(log[1].data)) = 3
    /\ Named(RecordsOf(log[1].data)[3], "href") = HrefMalformed
    /\ result.kind = "error" /\ result.cls = "WebDAVError" /\ ~result.hasStatus

\* C19: records without prop, with an empty prop and with an unparsable length
\* do yield a FileInfo
C19_MissingPropDegrades ==
    /\ Finished("stat") /\ log[1].resp = Http(207)
    /\ Len(RecordsOf(log[1].data)) = 1
    /\ Named(Named(RecordsOf(log[1].data)[1], "propstat"), "status") = StatusOK
    /\ Named(Named(RecordsOf(log[1].data)[1], "propstat"), "prop") = Undefined
    /\ result.kind = "ok" /\ result.value.v.size = Num(0) /\ result.value.v.type = "file"

-----------------------------------------------------------------------------
(* Uploads on a client whose limit for request bodies is smaller than some of
   the payloads *)

\* WebDAVClientOptions.maxBodyLength as passed to the constructor
UploadLimits == {1, MaxLen - 1}

InitUpload ==
    /\ baseURL = RootURL
    /\ \E fa \in {None, File(1)} :
          server = [r \in Res |-> IF r = <<"a">> THEN fa ELSE None]
    /\ log = <<>>
    /\ pc = "idle"
    /\ call = NoCall
    /\ node = NoNode
    /\ result = NoResult
    /\ calls = 0
    /\ written = [r \in Res |-> -1]
    /\ mkcols = [r \in Res |-> 0]
    /\ faulted = FALSE
    /\ maxBodyLength \in UploadLimits
    /\ faults = Faults
    /\ other = NoOther
    /\ execution = NoExecution

NextUpload ==
    \/ call_putFileContents
    \/ call_putFileStream
    \/ putFile_exists
    \/ putFile_put

SpecUpload == InitUpload /\ [][NextUpload]_vars

\* An upload has finished whose payload is larger than the client's limit
TooLarge(op) == Finished(op) /\ result.args.len > maxBodyLength

NoPut == \A i \in 1..Len(log) : log[i].method # "PUT"

C20_StreamSent ==
    /\ TooLarge("putFileStream")
    /\ maxBodyLength = 1 /\ result.args.len = MaxLen
    /\ log[Len(log)].method = "PUT" /\ log[Len(log)].resp = Http(201)
    /\ result.kind = "ok"

-----------------------------------------------------------------------------
(* One run of execute(): the loop over the input items, the output and the
   error that ends the run *)

\* The items a run may get: a folder to create, a file to upload, a file to move
ItemChoices ==
    {Item("create", NewDir, <<>>, FALSE, FALSE, 0),
     Item("upload", <<Slash, "b">>, <<>>, FALSE, FALSE, 1),
     Item("move", <<Slash, "a">>, <<Slash, "b">>, FALSE, FALSE, 0)}

ItemLists == UNION {[1..n -> ItemChoices] : n \in 1..MaxItems}

InitItems ==
    /\ baseURL = RootURL
    /\ \E fb \in {None, File(1)} :
          server = [r \in Res |-> CASE r = <<"a">> -> File(1)
                                    [] r = <<"b">> -> fb
                                    [] OTHER -> None]
    /\ log = <<>>
    /\ pc = "idle"
    /\ call = NoCall
    /\ node = NoNode
    /\ result = NoResult
    /\ calls = 0
    /\ written = [r \in Res |-> -1]
    /\ mkcols = [r \in Res |-> 0]
    /\ faulted = FALSE
    /\ maxBodyLength = MaxLen
    /\ faults = Faults
    /\ other = NoOther
    /\ \E c \in BOOLEAN, input \in ItemLists :
          execution = [continueOnFail |-> c, items |-> input, returnData |-> <<>>,
                       error |-> NoError]

\* execute(): the operation of an item up to its first request
ItemStart(n) ==
    CASE n.op = "create" ->
            CallClient(ClientCall("exists", n.path, <<>>, "undefined", 0), At(n, "fc_exists"))
      [] n.op = "upload" -> ParentsOf(n, n.path, "upload")
      [] n.op = "move" ->
            CallClient(ClientCall("exists", n.path, <<>>, "undefined", 0), At(n, "mv_src"))

\* for (let i = 0; i < items.length; i++): the loop takes item i when the
\* items before it are done and no error has left execute()
execute_item ==
    /\ execution.error = NoError
    /\ calls < Len(execution.items)
    /\ NextItem(ItemStart(execution.items[calls + 1]))

NextItems ==
    \/ execute_item
    \/ exists
    \/ putFile_exists
    \/ putFile_put
    \/ createDirectory
    \/ transferFile
    \/ stat

SpecItems == InitItems /\ [][NextItems]_vars

\* The items whose operation has come to its end
ItemsDone == IF pc = "idle" THEN calls ELSE calls - 1

\* Item k of the input, by what identifies it
SameItem(n, k) ==
    /\ k \in 1..Len(execution.items)
    /\ n.op = execution.items[k].op /\ n.path = execution.items[k].path
    /\ n.target = execution.items[k].target

\* C25: execute() handles the input items one after the other in their order,
\* and a failure stays with its item. With continueOnFail an item that fails
\* adds exactly one error entry to the output and no error leaves execute(),
\* so that the loop goes on with every later item. Without it the first item
\* that fails ends the run with a NodeOperationError that carries the index
\* of that item, the output holds the entries of the items before it only,
\* and nothing is requested for a later item.
C25_ItemsInOrderFailuresIsolated ==
    /\ [](/\ node.op # "none" => SameItem(node, calls)
          /\ execution.error = NoError =>
                /\ Len(execution.returnData) = ItemsDone
                /\ \A k \in 1..Len(execution.returnData) :
                      LET entry == execution.returnData[k]
                      IN  ~entry.error => (/\ entry.op = execution.items[k].op
                                           /\ entry.path = execution.items[k].path)
          /\ execution.continueOnFail =>
                /\ execution.error = NoError
                /\ (pc = "idle" /\ calls < Len(execution.items)) => ENABLED execute_item
          /\ ~execution.continueOnFail =>
                \A k \in 1..Len(execution.returnData) : ~execution.returnData[k].error
          /\ execution.error # NoError =>
                /\ execution.error.cls = "NodeOperationError"
                /\ pc = "idle" /\ result.kind = "error"
                /\ execution.error.itemIndex = Len(execution.returnData)
                /\ SameItem(result.args, execution.error.itemIndex + 1)
                /\ calls = execution.error.itemIndex + 1)
    /\ [][/\ (node.op # "none" /\ pc' = "idle" /\ result'.kind = "error"
              /\ execution.continueOnFail) =>
                 /\ Len(execution'.returnData) = Len(execution.returnData) + 1
                 /\ SubSeq(execution'.returnData, 1, Len(execution.returnData))
                       = execution.returnData
                 /\ execution'.returnData[Len(execution'.returnData)].error
          /\ execution.error # NoError => UNCHANGED <<calls, log, server, execution>>]_vars

\* C25 witness: with continueOnFail the first of two items failed (the file
\* to upload was there already) and left one error entry; the second item,
\* the folder, was handled after it and left its result
C25_LaterItemHandled ==
    /\ execution.continueOnFail /\ Len(execution.items) = 2
    /\ pc = "idle" /\ Len(execution.returnData) = 2
    /\ execution.returnData[1].error
    /\ ~execution.returnData[2].error /\ execution.returnData[2].op = "create"
    /\ result.op = "create" /\ Len(log) > 0

\* C25 witness: without continueOnFail the first of two items failed: the
\* error carries index 0, the output is empty and the second item was never
\* taken
C25_AbortedAtFirstFailure ==
    /\ ~execution.continueOnFail /\ Len(execution.items) = 2
    /\ execution.error = [cls |-> "NodeOperationError", itemIndex |-> 0]
    /\ execution.returnData = <<>>
    /\ calls = 1 /\ SameItem(result.args, 1)

\* C25 witness: without continueOnFail the second item failed after the first
\* one had succeeded: the error carries index 1
C25_AbortedAtSecondItem ==
    /\ ~execution.continueOnFail
    /\ execution.error = [cls |-> "NodeOperationError", itemIndex |-> 1]
    /\ Len(execution.returnData) = 1 /\ ~execution.returnData[1].error

====
